---- MODULE Spec2Model ----
(***************************************************************************)
(* A model of crawl_gtm.py: the incremental scheduler (run_scheduler,      *)
(* run_scan, stop_scheduler, the PID file and the history ledger), the     *)
(* FOFA cursor pagination (FofaCollector._fofa_search) and the             *)
(* reverse-lookup aggregator (GTMReverseLookup.lookup and _search_fofa).   *)
(***************************************************************************)
EXTENDS Integers, Sequences, FiniteSets, TLC

(***************************************************************************)
(* Bounds of the model.                                                    *)
(***************************************************************************)
\* number of run_scheduler invocations that may be in progress together
NumStarts == 2
\* number of scan cycles (load_history calls) explored in one behaviour
MaxCycles == 3
\* seconds of the daemon's sleep interval (3600 and more in the program)
IntervalTicks == 2
\* reverse-lookup sites one cycle may find
MaxSites == 1

\* container identifiers (GTM-...) and post identifiers that inputs may yield
Ids == {1, 2}
Posts == {1}

NoPid == 0
\* PID_FILE holds text that int() rejects
BadPid == -1

\* _read_pid_file: the PID the file holds, None when the file is missing
\* or does not parse; a file that does not parse is removed, so the value
\* returned is also what the file holds after the call
read_pid_file(file) == IF file = BadPid THEN NoPid ELSE file

Starts == 1..NumStarts

VARIABLES
    procs,        \* the run_scheduler invocations of this behaviour
    args,         \* the command line, see ArgsAll
    xSession,     \* SESSION_FILE holds a usable X.com session
    bwSession,    \* BW_SESSION_FILE holds usable BuiltWith cookies
    pidFile,      \* content of PID_FILE, NoPid when the file does not exist
    historyFile,  \* content of HISTORY_FILE: missing, corrupt or a ledger
    pc,           \* position of each run_scheduler invocation
    history,      \* the local variable `history` of each invocation
    running,      \* the flag `running` of each daemon
    ticks,        \* remaining iterations of the daemon's sleep loop
    pidRead,      \* the local variable `pid` of the PID check
    analysed,     \* identifiers analysed by the invocation's current cycle
    cycles,       \* number of cycles begun so far
    stopPc,       \* position of the --stop or --status command
    stopPid       \* the local variable `pid` of stop_scheduler

VARIABLES
    fPc,          \* position of _fofa_search
    fPage,        \* its local variable `page`
    fNext,        \* params["next"], 0 when the key is absent
    fRequests,    \* the continuation token each request carried
    fResponses,   \* the responses the API gave
    fAll          \* its local variable `all_results`

VARIABLES
    lPc,          \* position of GTMReverseLookup.lookup
    lResults,     \* its local variable `results`
    lQueried,     \* the sources queried so far, in order
    lLast,        \* how the latest of them ended and what it contributed
    lAnyOk,       \* some source's last request was answered with a 200
    lUnique,      \* the list lookup returns
    fofaKey,      \* load_fofa_key() returns a key
    sQuery,       \* index of the query _search_fofa is paginating
    sNext,        \* params["next"] of _search_fofa
    sCount,       \* requests _search_fofa has issued
    sResults,     \* its local variable `results`
    sFailed,      \* its local variable `api_failed`
    sTier,        \* the tier that produced its return value
    sReturn       \* the list _search_fofa returns

VARIABLES
    aPc,          \* position of analyze_gtm_async
    aId,          \* its argument gtm_id
    aContent,     \* the text the container URL serves
    aCount,       \* how often aId has been analysed
    aResp,        \* what session.get gave the latest analysis
    aOrder,       \* the set order of the process that extracted, if one did
    aResult,      \* its local variable `result`
    aFirst,       \* result and set order of the previous analysis of aId
    batch         \* analyze_all_gtm_async: its argument, tasks and results

fofaVars == <<fPc, fPage, fNext, fRequests, fResponses, fAll>>

anVars == <<aPc, aId, aContent, aCount, aResp, aOrder, aResult, aFirst,
            batch>>

lookupVars == <<lPc, lResults, lQueried, lLast, lAnyOk, lUnique, fofaKey,
                sQuery, sNext, sCount, sResults, sFailed, sTier, sReturn>>

schedVars == <<procs, args, xSession, bwSession, pidFile, historyFile, pc,
               history, running, ticks, pidRead, analysed, cycles, stopPc,
               stopPid>>

(***************************************************************************)
(* The ledger (history.json).                                              *)
(***************************************************************************)
EmptyHistory ==
    [seen_post_ids |-> {}, seen_gtm_ids |-> {}, runs |-> <<>>,
     total_domains_found |-> 0]

\* HISTORY_FILE: missing, unparsable, or the JSON of a ledger
NoFile == [kind |-> "nofile", data |-> EmptyHistory]

\* a default ledger that claims a domain no run found
load_history_mut(file) ==
    IF file.kind = "ok" THEN file.data
    ELSE [EmptyHistory EXCEPT !.total_domains_found = 1]

\* load_history: the parsed file, or the empty ledger when the file is
\* missing or does not parse
load_history(file) ==
    IF file.kind = "ok" THEN file.data ELSE EmptyHistory

\* save_history: the file after a write that went through
save_history(file, h) == [kind |-> "ok", data |-> h]

\* the file after a write that raised: write_text opens the file with
\* truncation before writing, so the old content survives only when the
\* open itself failed
save_history_failed_mut(file, h) == {[kind |-> "ok", data |-> h]}

save_history_failed(file, h) ==
    {file, [kind |-> "corrupt", data |-> EmptyHistory]}

(***************************************************************************)
(* run_scan: one scan cycle as a function of the loaded ledger and of what *)
(* the collaborators return.                                               *)
(***************************************************************************)
\* identifiers mentioned by the text of the posts (extract_gtm_ids): post p
\* mentions identifier p
extract_gtm_ids(posts) ==
    LET PostText == [p \in Posts |-> {p}]
    IN  UNION {PostText[p] : p \in posts}

\* the command line: xcom (--xuser / --search), gtm (the identifiers given
\* with --gtm), scan (inputs whose yield changes between cycles: --file,
\* --scan-url, --fofa), deep, reverse_lookup
ArgsAll ==
    {a \in [xcom : BOOLEAN, gtm : SUBSET Ids, scan : BOOLEAN, deep : BOOLEAN,
            reverse_lookup : BOOLEAN] : a.xcom \/ a.gtm # {} \/ a.scan}

\* command lines that name one container, with or without --deep
ArgsGtm ==
    {a \in ArgsAll : /\ ~a.xcom /\ ~a.scan /\ ~a.reverse_lookup
                     /\ a.gtm = {1}}

\* any([args.gtm, args.file, args.posts_file, args.scan_url, args.fofa])
has_offline_input(a) == a.gtm # {} \/ a.scan

\* what the collaborators hand to one cycle: the collected posts, the
\* identifiers the changing inputs yield, the GTM identifiers in the
\* tracking_ids of the fetched containers of gtm_list, those in the
\* tracking_ids of the linked containers (3 is an identifier that occurs
\* inside containers only), the containers whose fetch gives status
\* "active" (read by the reverse lookup only), the number of sites the
\* reverse lookups return
ScanInputs(a) ==
    [posts : IF a.xcom THEN SUBSET Posts ELSE {{}},
     scanned : IF a.scan THEN SUBSET Ids ELSE {{}},
     found : IF a.deep THEN SUBSET Ids ELSE {{}},
     found_linked : IF a.deep THEN SUBSET {3} ELSE {{}},
     active : IF a.reverse_lookup THEN SUBSET Ids ELSE {Ids},
     sites : IF a.reverse_lookup THEN 0..MaxSites ELSE {0}]

linked_ids_none_mut(a, inp, all_gtm_ids, seen_gtms) == {}

linked_ids_mut(a, inp, all_gtm_ids, seen_gtms) ==
    IF a.deep /\ (all_gtm_ids \ seen_gtms) \cap inp.active # {}
    THEN {tid \in inp.found : tid \notin all_gtm_ids}
    ELSE {}

\* deep mode: the linked identifiers of the analysed containers; a result
\* whose fetch failed has no tracking_ids
linked_ids(a, inp, all_gtm_ids, seen_gtms) ==
    IF a.deep /\ (all_gtm_ids \ seen_gtms) \cap inp.active # {}
    THEN {tid \in inp.found : tid \notin all_gtm_ids /\ tid \notin seen_gtms}
    ELSE {}

\* run_scan: the ledger it returns, the containers it analysed, and its
\* calls in order: analyze_all_gtm_async on gtm_list and on the linked
\* identifiers, the loop of lookup.lookup over the active results, the
\* output (render_results or the JSON file)
run_scan(a, session, bw, h, inp) ==
    LET seen_posts == h.seen_post_ids
        seen_gtms == h.seen_gtm_ids
        fresh_posts == IF a.xcom THEN inp.posts \ seen_posts ELSE {}
        new_post_ids == fresh_posts
        all_gtm_ids == extract_gtm_ids(fresh_posts) \cup a.gtm
                         \cup (IF a.scan THEN inp.scanned ELSE {})
        fresh_gtm_ids == all_gtm_ids \ seen_gtms
        linked == linked_ids(a, inp, all_gtm_ids, seen_gtms)
        new_gtm_ids == fresh_gtm_ids \cup linked
        lookups == IF a.reverse_lookup /\ bw
                   THEN <<[call |-> "lookup",
                           ids |-> new_gtm_ids \cap inp.active]>>
                   ELSE <<>>
        new_domains == IF lookups # <<>> /\ lookups[1].ids # {}
                       THEN inp.sites ELSE 0
    IN  IF a.xcom /\ ~session /\ ~has_offline_input(a)
        THEN [history |-> h, analysed |-> {}, all_gtm_ids |-> {},
              calls |-> <<>>]
        ELSE IF fresh_gtm_ids = {}
        THEN [history |->
                [h EXCEPT !.seen_post_ids = seen_posts \cup new_post_ids,
                          !.runs = Append(@, [new_posts |-> Cardinality(new_post_ids),
                                              new_gtms |-> 0,
                                              new_domains |-> 0])],
              analysed |-> {}, all_gtm_ids |-> all_gtm_ids, calls |-> <<>>]
        ELSE [history |->
                [seen_post_ids |-> seen_posts \cup new_post_ids,
                 seen_gtm_ids |-> seen_gtms \cup new_gtm_ids,
                 total_domains_found |-> h.total_domains_found + new_domains,
                 runs |-> Append(h.runs,
                                 [new_posts |-> Cardinality(new_post_ids),
                                  new_gtms |-> Cardinality(fresh_gtm_ids),
                                  new_domains |-> new_domains])],
              analysed |-> new_gtm_ids,
              all_gtm_ids |-> all_gtm_ids,
              calls |-> <<[call |-> "analyze", ids |-> fresh_gtm_ids]>>
                        \o (IF linked # {}
                            THEN <<[call |-> "analyze", ids |-> linked]>>
                            ELSE <<>>)
                        \o lookups
                        \o <<[call |-> "output", ids |-> new_gtm_ids]>>]

(***************************************************************************)
(* Processes and signals.                                                  *)
(***************************************************************************)
\* positions of the daemon after its signal handlers are installed
HandlerPcs == {"loop_top", "sleep", "after_sleep", "load", "scan", "save",
               "backoff", "unlink"}
\* positions of the forked daemon: its PID is the one the PID file names
DaemonPcs == {"daemon_init"} \cup HandlerPcs
\* positions between a cycle's load_history and the end of its save_history
CyclePcs == {"fg_scan", "fg_save", "scan", "save"}

\* a PID counts as running whenever the file names one
Alive_mut(pid) == pid \in Starts

\* os.kill(pid, 0) succeeds
Alive(pid) == pid \in Starts /\ pc[pid] \in DaemonPcs

\* the ledger file when a process is killed: a process killed inside
\* save_history may leave the truncated file behind
KilledFile(p) ==
    IF pc[p] \in {"fg_save", "save"}
    THEN save_history_failed(historyFile, history[p])
    ELSE {historyFile}

(***************************************************************************)
(* Initial states.                                                         *)
(***************************************************************************)
InitWith(P, A, S, at) ==
    /\ procs = P
    /\ args \in A
    /\ xSession \in S
    /\ bwSession \in S
    /\ pidFile = NoPid
    /\ historyFile = NoFile
    /\ pc = [p \in Starts |-> at]
    /\ history = [p \in Starts |-> EmptyHistory]
    /\ running = [p \in Starts |-> TRUE]
    /\ ticks = [p \in Starts |-> 0]
    /\ pidRead = [p \in Starts |-> NoPid]
    /\ analysed = [p \in Starts |-> {}]
    /\ cycles = 0
    /\ stopPc = "idle"
    /\ stopPid = NoPid

(***************************************************************************)
(* main: the checks of --hours and --days, and the dispatch.               *)
(***************************************************************************)
\* where main goes from "Validate --hours / --days" on: sys.exit(1),
\* run_scheduler, or the one scan of a command without interval
main_dispatch(a) ==
    LET \* the truth value of an int option: None and 0 are false
        truthy(opt) == opt # <<>> /\ opt[1] # 0
        \* "if args.x is not None: if args.x < 1 or args.x > hi"
        out_of_range(opt, hi) == opt # <<>> /\ (opt[1] < 1 \/ opt[1] > hi)
    IN
    IF truthy(a.hours) /\ truthy(a.days) THEN "exit1"
    ELSE IF out_of_range(a.hours, 12) THEN "exit1"
    ELSE IF out_of_range(a.days, 5) THEN "exit1"
    ELSE IF ~a.xcom /\ ~has_offline_input(a) THEN "exit1"
    ELSE IF truthy(a.hours) \/ truthy(a.days) THEN "idle"
    ELSE "run_once"

\* the command is entered without --stop, --scheduler-status,
\* --clear-history or a session command
Main(p) ==
    /\ p \in procs
    /\ pc[p] = "main"
    /\ pc' = [pc EXCEPT ![p] = main_dispatch(args)]
    /\ UNCHANGED <<procs, args, xSession, bwSession, pidFile, historyFile,
                   history, running, ticks, pidRead, analysed, cycles,
                   stopPc, stopPid>>
    /\ UNCHANGED <<fofaVars, lookupVars, anVars>>

\* the scan of a command without --hours and --days: main collects the
\* identifiers, analyses all of them and, with --deep, the identifiers
\* linked from them; it neither reads nor writes HISTORY_FILE
RunOnce(p) ==
    /\ p \in procs
    /\ pc[p] = "run_once"
    /\ \E inp \in ScanInputs(args) :
         LET all_gtm_ids == extract_gtm_ids(inp.posts) \cup args.gtm
                              \cup inp.scanned
             linked == IF args.deep /\ all_gtm_ids \cap inp.active # {}
                       THEN inp.found \ all_gtm_ids ELSE {}
         IN  /\ analysed' = [analysed EXCEPT ![p] = all_gtm_ids \cup linked]
             /\ pc' = [pc EXCEPT ![p] =
                          IF all_gtm_ids = {} THEN "exit0" ELSE "scan_complete"]
    /\ UNCHANGED <<procs, args, xSession, bwSession, pidFile, historyFile,
                   history, running, ticks, pidRead, cycles, stopPc, stopPid>>
    /\ UNCHANGED <<fofaVars, lookupVars, anVars>>

(***************************************************************************)
(* run_scheduler, foreground part.                                         *)
(***************************************************************************)
\* the X.com check alone
missing_session_mut(a, xs, bs) == a.xcom /\ ~xs

\* a session the inputs need is absent: sm.load() is falsy with --xuser or
\* --search, load_bw_session() is falsy with --reverse-lookup
missing_session(a, xs, bs) == (a.xcom /\ ~xs) \/ (a.reverse_lookup /\ ~bs)

\* the command is entered with --hours or --days:
\* "Validate sessions before daemonizing"
Validate(p) ==
    /\ p \in procs
    /\ pc[p] = "idle"
    /\ pc' = [pc EXCEPT ![p] =
                IF missing_session(args, xSession, bwSession)
                THEN "exit1" ELSE "read_pid"]
    /\ UNCHANGED <<procs, args, xSession, bwSession, pidFile, historyFile,
                   history, running, ticks, pidRead, analysed, cycles,
                   stopPc, stopPid>>
    /\ UNCHANGED <<fofaVars, lookupVars, anVars>>

\* pid = _read_pid_file()
ReadPid(p) ==
    /\ pc[p] = "read_pid"
    /\ pidRead' = [pidRead EXCEPT ![p] = read_pid_file(pidFile)]
    /\ pidFile' = read_pid_file(pidFile)
    /\ pc' = [pc EXCEPT ![p] = "check_pid"]
    /\ UNCHANGED <<procs, args, xSession, bwSession, historyFile,
                   history, running, ticks, analysed, cycles, stopPc, stopPid>>
    /\ UNCHANGED <<fofaVars, lookupVars, anVars>>

\* "Check if already running": os.kill(pid, 0), exit 1 or remove the
\* stale file
CheckPid(p) ==
    /\ pc[p] = "check_pid"
    /\ pidRead' = [pidRead EXCEPT ![p] = NoPid]
    /\ IF pidRead[p] = NoPid
       THEN /\ pc' = [pc EXCEPT ![p] = "fg_load"]
            /\ UNCHANGED pidFile
       ELSE IF Alive(pidRead[p])
       THEN /\ pc' = [pc EXCEPT ![p] = "exit1"]
            /\ UNCHANGED pidFile
       ELSE /\ pc' = [pc EXCEPT ![p] = "fg_load"]
            /\ pidFile' = NoPid
    /\ UNCHANGED <<procs, args, xSession, bwSession, historyFile, history,
                   running, ticks, analysed, cycles, stopPc, stopPid>>
    /\ UNCHANGED <<fofaVars, lookupVars, anVars>>

\* history = load_history(), of the initial scan and of the daemon loop
Load(p) ==
    /\ pc[p] \in {"fg_load", "load"}
    /\ pc[p] = "fg_load" => cycles < MaxCycles
    /\ cycles' = IF pc[p] = "fg_load" THEN cycles + 1 ELSE cycles
    /\ history' = [history EXCEPT ![p] = load_history(historyFile)]
    /\ analysed' = [analysed EXCEPT ![p] = {}]
    /\ pc' = [pc EXCEPT ![p] = IF pc[p] = "fg_load" THEN "fg_scan" ELSE "scan"]
    /\ UNCHANGED <<procs, args, xSession, bwSession, pidFile, historyFile,
                   running, ticks, pidRead, stopPc, stopPid>>
    /\ UNCHANGED <<fofaVars, lookupVars, anVars>>

\* history = run_scan(args, sm, history)
\* bw_cookies is load_bw_session(); the foreground scan (no logger) that
\* finds none calls ensure_bw_session, whose prompt saves the cookies it is
\* given or returns none
Scan(p) ==
    /\ pc[p] \in {"fg_scan", "scan"}
    /\ \E inp \in ScanInputs(args) :
       \E bw_cookies \in IF pc[p] = "fg_scan" THEN {bwSession, TRUE}
                                              ELSE {bwSession} :
         LET r == run_scan(args, xSession, bw_cookies, history[p], inp)
         IN  /\ history' = [history EXCEPT ![p] = r.history]
             /\ analysed' = [analysed EXCEPT ![p] = r.analysed]
             /\ bwSession' = IF args.reverse_lookup /\ r.calls # <<>>
                             THEN bw_cookies ELSE bwSession
    /\ pc' = [pc EXCEPT ![p] = IF pc[p] = "fg_scan" THEN "fg_save" ELSE "save"]
    /\ UNCHANGED <<procs, args, xSession, pidFile, historyFile,
                   running, ticks, pidRead, cycles, stopPc, stopPid>>
    /\ UNCHANGED <<fofaVars, lookupVars, anVars>>

\* run_scan raises after its analysis: the initial scan ends the process,
\* the daemon loop catches the exception and backs off
ScanRaise(p) ==
    /\ pc[p] \in {"fg_scan", "scan"}
    /\ \E inp \in ScanInputs(args) :
         analysed' = [analysed EXCEPT ![p] =
             run_scan(args, xSession, bwSession, history[p], inp).analysed]
    /\ pc' = [pc EXCEPT ![p] = IF pc[p] = "fg_scan" THEN "crashed" ELSE "backoff"]
    /\ UNCHANGED <<procs, args, xSession, bwSession, pidFile, historyFile,
                   history, running, ticks, pidRead, cycles, stopPc, stopPid>>
    /\ UNCHANGED <<fofaVars, lookupVars, anVars>>

\* save_history(history)
Save(p) ==
    /\ pc[p] \in {"fg_save", "save"}
    /\ historyFile' = save_history(historyFile, history[p])
    /\ pc' = [pc EXCEPT ![p] = IF pc[p] = "fg_save" THEN "fork" ELSE "loop_top"]
    /\ UNCHANGED <<procs, args, xSession, bwSession, pidFile, history,
                   running, ticks, pidRead, analysed, cycles, stopPc, stopPid>>
    /\ UNCHANGED <<fofaVars, lookupVars, anVars>>

\* save_history raises (disk full, permissions)
SaveRaise(p) ==
    /\ pc[p] \in {"fg_save", "save"}
    /\ historyFile' \in save_history_failed(historyFile, history[p])
    /\ pc' = [pc EXCEPT ![p] = IF pc[p] = "fg_save" THEN "crashed" ELSE "backoff"]
    /\ UNCHANGED <<procs, args, xSession, bwSession, pidFile, history,
                   running, ticks, pidRead, analysed, cycles, stopPc, stopPid>>
    /\ UNCHANGED <<fofaVars, lookupVars, anVars>>

\* os.fork() twice, then PID_FILE.write_text(str(os.getpid()))
Daemonize(p) ==
    /\ pc[p] = "fork"
    /\ pidFile' = p
    /\ pc' = [pc EXCEPT ![p] = "daemon_init"]
    /\ UNCHANGED <<procs, args, xSession, bwSession, historyFile, history,
                   running, ticks, pidRead, analysed, cycles, stopPc, stopPid>>
    /\ UNCHANGED <<fofaVars, lookupVars, anVars>>

\* running = True; signal.signal(SIGTERM / SIGINT, handle_sigterm)
InstallHandlers(p) ==
    /\ pc[p] = "daemon_init"
    /\ running' = [running EXCEPT ![p] = TRUE]
    /\ pc' = [pc EXCEPT ![p] = "loop_top"]
    /\ UNCHANGED <<procs, args, xSession, bwSession, pidFile, historyFile,
                   history, ticks, pidRead, analysed, cycles, stopPc, stopPid>>
    /\ UNCHANGED <<fofaVars, lookupVars, anVars>>
(***************************************************************************)
(* run_scheduler, daemon loop.                                             *)
(***************************************************************************)
\* while running:
LoopTop(p) ==
    /\ pc[p] = "loop_top"
    /\ IF running[p]
       THEN /\ pc' = [pc EXCEPT ![p] = "sleep"]
            /\ ticks' = [ticks EXCEPT ![p] = IntervalTicks]
       ELSE /\ pc' = [pc EXCEPT ![p] = "unlink"]
            /\ UNCHANGED ticks
    /\ UNCHANGED <<procs, args, xSession, bwSession, pidFile, historyFile,
                   history, running, pidRead, analysed, cycles, stopPc, stopPid>>
    /\ UNCHANGED <<fofaVars, lookupVars, anVars>>

\* the next pc of one iteration of "for _ in range(interval_seconds)"
sleep_step_mut(isRunning, left) == IF left = 0 THEN "after_sleep" ELSE "sleep"

sleep_step(isRunning, left) ==
    IF left = 0 \/ ~isRunning THEN "after_sleep" ELSE "sleep"

\* one iteration: "if not running: break", else time.sleep(1)
SleepTick(p) ==
    /\ pc[p] = "sleep"
    /\ pc' = [pc EXCEPT ![p] = sleep_step(running[p], ticks[p])]
    /\ ticks' = [ticks EXCEPT ![p] =
                   IF sleep_step(running[p], ticks[p]) = "sleep" THEN @ - 1 ELSE @]
    /\ UNCHANGED <<procs, args, xSession, bwSession, pidFile, historyFile,
                   history, running, pidRead, analysed, cycles, stopPc, stopPid>>
    /\ UNCHANGED <<fofaVars, lookupVars, anVars>>

\* the next pc of "if not running: break" after the sleep loop
after_sleep_step_mut(isRunning) == "load"

after_sleep_step(isRunning) == IF isRunning THEN "load" ELSE "unlink"

\* "if not running: break", else the scheduled scan starts
AfterSleep(p) ==
    /\ pc[p] = "after_sleep"
    /\ after_sleep_step(running[p]) = "load" => cycles < MaxCycles
    /\ cycles' = IF after_sleep_step(running[p]) = "load" THEN cycles + 1 ELSE cycles
    /\ pc' = [pc EXCEPT ![p] = after_sleep_step(running[p])]
    /\ UNCHANGED <<procs, args, xSession, bwSession, pidFile, historyFile,
                   history, running, ticks, pidRead, analysed, stopPc, stopPid>>
    /\ UNCHANGED <<fofaVars, lookupVars, anVars>>

\* except Exception: time.sleep(60), then back to the loop condition
Backoff(p) ==
    /\ pc[p] = "backoff"
    /\ pc' = [pc EXCEPT ![p] = "loop_top"]
    /\ UNCHANGED <<procs, args, xSession, bwSession, pidFile, historyFile,
                   history, running, ticks, pidRead, analysed, cycles,
                   stopPc, stopPid>>
    /\ UNCHANGED <<fofaVars, lookupVars, anVars>>

\* PID_FILE.unlink(missing_ok=True) after the loop
DaemonUnlink(p) ==
    /\ pc[p] = "unlink"
    /\ pidFile' = NoPid
    /\ pc' = [pc EXCEPT ![p] = "stopped"]
    /\ UNCHANGED <<procs, args, xSession, bwSession, historyFile, history,
                   running, ticks, pidRead, analysed, cycles, stopPc, stopPid>>
    /\ UNCHANGED <<fofaVars, lookupVars, anVars>>

(***************************************************************************)
(* The environment of the daemon.                                          *)
(***************************************************************************)
\* SIGTERM or SIGINT sent to a daemon by anyone: handle_sigterm runs
Signal(p) ==
    /\ pc[p] \in HandlerPcs
    /\ running[p]
    /\ running' = [running EXCEPT ![p] = FALSE]
    /\ UNCHANGED <<procs, args, xSession, bwSession, pidFile, historyFile, pc,
                   history, ticks, pidRead, analysed, cycles, stopPc, stopPid>>
    /\ UNCHANGED <<fofaVars, lookupVars, anVars>>

\* the process is killed (SIGKILL, power loss) during a cycle or as a daemon
Kill(p) ==
    /\ pc[p] \in CyclePcs \cup DaemonPcs
    /\ historyFile' \in KilledFile(p)
    /\ pc' = [pc EXCEPT ![p] = "killed"]
    /\ UNCHANGED <<procs, args, xSession, bwSession, pidFile, history,
                   running, ticks, pidRead, analysed, cycles, stopPc, stopPid>>
    /\ UNCHANGED <<fofaVars, lookupVars, anVars>>

\* --clear-history: HISTORY_FILE.unlink()
ClearHistory ==
    /\ historyFile.kind # "nofile"
    /\ historyFile' = NoFile
    /\ UNCHANGED <<procs, args, xSession, bwSession, pidFile, pc, history,
                   running, ticks, pidRead, analysed, cycles, stopPc, stopPid>>
    /\ UNCHANGED <<fofaVars, lookupVars, anVars>>
(***************************************************************************)
(* stop_scheduler (--stop).                                                *)
(***************************************************************************)
\* pid = _read_pid_file()
StopRead ==
    /\ stopPc = "idle"
    /\ stopPid' = read_pid_file(pidFile)
    /\ pidFile' = read_pid_file(pidFile)
    /\ stopPc' = IF read_pid_file(pidFile) = NoPid THEN "no_scheduler"
                 ELSE "term"
    /\ UNCHANGED <<procs, args, xSession, bwSession, historyFile, pc,
                   history, running, ticks, pidRead, analysed, cycles>>
    /\ UNCHANGED <<fofaVars, lookupVars, anVars>>

\* os.kill(pid, 0); os.kill(pid, signal.SIGTERM), or the stale branch
StopTerm ==
    /\ stopPc = "term"
    /\ IF Alive(stopPid)
       THEN \* handle_sigterm clears the flag once it is installed, the
            \* default disposition ends the process before that
            /\ pc' = [pc EXCEPT ![stopPid] =
                         IF @ \in HandlerPcs THEN @ ELSE "killed"]
            /\ running' = [running EXCEPT ![stopPid] =
                              IF pc[stopPid] \in HandlerPcs THEN FALSE ELSE @]
            /\ stopPc' = "wait"
            /\ UNCHANGED pidFile
       ELSE /\ pidFile' = NoPid
            /\ stopPc' = "stale"
            /\ UNCHANGED <<pc, running>>
    /\ UNCHANGED <<procs, args, xSession, bwSession, historyFile, history,
                   ticks, pidRead, analysed, cycles, stopPid>>
    /\ UNCHANGED <<fofaVars, lookupVars, anVars>>

\* the target's pc after the second os.kill(pid, 0) found it alive
sigkill_mut(cur) == cur

sigkill(cur) == "killed"

\* time.sleep(1); os.kill(pid, 0); os.kill(pid, signal.SIGKILL)
StopKill ==
    /\ stopPc = "wait"
    /\ IF Alive(stopPid)
       THEN /\ pc' = [pc EXCEPT ![stopPid] = sigkill(@)]
            /\ historyFile' \in KilledFile(stopPid)
       ELSE UNCHANGED <<pc, historyFile>>
    /\ stopPc' = "unlink"
    /\ UNCHANGED <<procs, args, xSession, bwSession, pidFile, history,
                   running, ticks, pidRead, analysed, cycles, stopPid>>
    /\ UNCHANGED <<fofaVars, lookupVars, anVars>>

\* PID_FILE.unlink(missing_ok=True); return True
StopUnlink ==
    /\ stopPc = "unlink"
    /\ pidFile' = NoPid
    /\ stopPc' = "stopped"
    /\ UNCHANGED <<procs, args, xSession, bwSession, historyFile, pc, history,
                   running, ticks, pidRead, analysed, cycles, stopPid>>
    /\ UNCHANGED <<fofaVars, lookupVars, anVars>>

\* scheduler_status (--status): pid = _read_pid_file(), then os.kill(pid, 0)
\* and "Scheduler running", or the removal of the stale file and "No
\* scheduler running"
SchedulerStatus ==
    /\ \/ /\ stopPc = "idle"
          /\ stopPid' = read_pid_file(pidFile)
          /\ pidFile' = read_pid_file(pidFile)
          /\ stopPc' = IF read_pid_file(pidFile) = NoPid THEN "no_scheduler"
                       ELSE "status"
       \/ /\ stopPc = "status"
          /\ IF Alive(stopPid)
             THEN stopPc' = "status_running" /\ UNCHANGED pidFile
             ELSE stopPc' = "no_scheduler" /\ pidFile' = NoPid
          /\ UNCHANGED stopPid
    /\ UNCHANGED <<procs, args, xSession, bwSession, historyFile, pc,
                   history, running, ticks, pidRead, analysed, cycles>>
    /\ UNCHANGED <<fofaVars, lookupVars, anVars>>

\* the command has returned; it may be entered again
StopReturn ==
    /\ stopPc \in {"no_scheduler", "stale", "stopped", "status_running"}
    /\ stopPc' = "idle"
    /\ stopPid' = NoPid
    /\ UNCHANGED <<procs, args, xSession, bwSession, pidFile, historyFile, pc,
                   history, running, ticks, pidRead, analysed, cycles>>
    /\ UNCHANGED <<fofaVars, lookupVars, anVars>>

(***************************************************************************)
(* Specifications.                                                         *)
(***************************************************************************)
vars == <<schedVars, fofaVars, lookupVars, anVars>>

AnalyzeIdle ==
    /\ aPc = "idle"
    /\ aId = ""
    /\ aContent = ""
    /\ aCount = 0
    /\ aResp = [kind |-> "none", status |-> 0]
    /\ aOrder = "none"
    /\ aResult = [status |-> "none"]
    /\ aFirst = [result |-> [status |-> "none"], order |-> "none"]
    /\ batch = [pc |-> "idle", ids |-> <<>>, texts |-> <<>>, order |-> "asc",
                tasks |-> <<>>, results |-> <<>>]

FofaIdle ==
    /\ fPc = "idle"
    /\ fPage = 0
    /\ fNext = 0
    /\ fRequests = <<>>
    /\ fResponses = <<>>
    /\ fAll = <<>>

LookupIdleWith(K) ==
    /\ lPc = "idle"
    /\ lResults = <<>>
    /\ lQueried = <<>>
    /\ lLast = [kind |-> "none", count |-> 0]
    /\ lAnyOk = FALSE
    /\ lUnique = <<>>
    /\ fofaKey \in K
    /\ sQuery = 0
    /\ sNext = 0
    /\ sCount = 0
    /\ sResults = <<>>
    /\ sFailed = FALSE
    /\ sTier = "none"
    /\ sReturn = <<>>

\* the scheduler: every start request, the stop command, signals
Init ==
    /\ InitWith(Starts, ArgsGtm, {TRUE}, "idle")
    /\ FofaIdle /\ LookupIdleWith({FALSE}) /\ AnalyzeIdle

Next ==
    \/ \E p \in Starts : Validate(p)
    \/ \E p \in Starts : ReadPid(p)
    \/ \E p \in Starts : CheckPid(p)
    \/ \E p \in Starts : Load(p)
    \/ \E p \in Starts : Scan(p)
    \/ \E p \in Starts : ScanRaise(p)
    \/ \E p \in Starts : Save(p)
    \/ \E p \in Starts : SaveRaise(p)
    \/ \E p \in Starts : Daemonize(p)
    \/ \E p \in Starts : InstallHandlers(p)
    \/ \E p \in Starts : LoopTop(p)
    \/ \E p \in Starts : SleepTick(p)
    \/ \E p \in Starts : AfterSleep(p)
    \/ \E p \in Starts : Backoff(p)
    \/ \E p \in Starts : DaemonUnlink(p)
    \/ \E p \in Starts : Signal(p)
    \/ \E p \in Starts : Kill(p)
    \/ ClearHistory
    \/ StopRead
    \/ StopTerm
    \/ StopKill
    \/ StopUnlink
    \/ StopReturn

Spec == Init /\ [][Next]_vars

\* the commands from main on: start requests with every combination of
\* --hours and --days, and the stop command.  The command lines name one
\* container; an option of type int is <<>> when it is not given (None),
\* <<n>> otherwise
InitControl ==
    /\ InitWith(Starts,
                [xcom : {FALSE}, gtm : {{1}}, scan : {FALSE}, deep : {FALSE},
                 reverse_lookup : {FALSE},
                 hours : {<<>>, <<0>>, <<1>>, <<13>>},
                 days : {<<>>, <<0>>, <<5>>, <<6>>}],
                {TRUE}, "main")
    /\ FofaIdle /\ LookupIdleWith({FALSE}) /\ AnalyzeIdle

SpecControl ==
    InitControl
        /\ [][\/ \E p \in Starts : Main(p)
              \/ \E p \in Starts : RunOnce(p)
              \/ Next]_vars

\* one scheduler and the stop command
InitStop ==
    /\ InitWith({1}, ArgsGtm, {TRUE}, "idle")
    /\ FofaIdle /\ LookupIdleWith({FALSE}) /\ AnalyzeIdle

SpecStop == InitStop /\ [][Next]_vars

\* the daemon is a running process: it goes on taking steps, and each scan
\* and each write ends (every network call has a timeout)
LiveStop ==
    SpecStop
        /\ \A p \in Starts :
               WF_vars(\/ LoopTop(p)
                       \/ SleepTick(p)
                       \/ AfterSleep(p)
                       \/ pc[p] = "load" /\ Load(p)
                       \/ pc[p] = "scan" /\ (Scan(p) \/ ScanRaise(p))
                       \/ pc[p] = "save" /\ (Save(p) \/ SaveRaise(p))
                       \/ Backoff(p)
                       \/ DaemonUnlink(p))

\* one start request that finds the PID file of a scheduler that was killed,
\* or a PID file that does not parse, with the stop and status commands
InitStale ==
    /\ procs = {1}
    /\ args \in ArgsGtm
    /\ xSession = TRUE
    /\ bwSession = TRUE
    /\ pidFile \in {BadPid} \cup (Starts \ {1})
    /\ historyFile = NoFile
    /\ pc = [p \in Starts |-> IF p = 1 THEN "idle" ELSE "killed"]
    /\ history = [p \in Starts |-> EmptyHistory]
    /\ running = [p \in Starts |-> TRUE]
    /\ ticks = [p \in Starts |-> 0]
    /\ pidRead = [p \in Starts |-> NoPid]
    /\ analysed = [p \in Starts |-> {}]
    /\ cycles = 0
    /\ stopPc = "idle"
    /\ stopPid = NoPid
    /\ FofaIdle /\ LookupIdleWith({FALSE}) /\ AnalyzeIdle

SpecStale == InitStale /\ [][Next \/ SchedulerStatus]_vars

\* one scheduler and its cycles under every command line, nobody signalling
InitCycles ==
    /\ InitWith({1}, ArgsAll, BOOLEAN, "idle")
    /\ FofaIdle /\ LookupIdleWith({FALSE}) /\ AnalyzeIdle

SpecCycles ==
    InitCycles
        /\ [][\/ \E p \in Starts : Validate(p)
              \/ \E p \in Starts : ReadPid(p)
              \/ \E p \in Starts : CheckPid(p)
              \/ \E p \in Starts : Load(p)
              \/ \E p \in Starts : Scan(p)
              \/ \E p \in Starts : ScanRaise(p)
              \/ \E p \in Starts : Save(p)
              \/ \E p \in Starts : SaveRaise(p)
              \/ \E p \in Starts : Daemonize(p)
              \/ \E p \in Starts : InstallHandlers(p)
              \/ \E p \in Starts : LoopTop(p)
              \/ \E p \in Starts : SleepTick(p)
              \/ \E p \in Starts : AfterSleep(p)
              \/ \E p \in Starts : Backoff(p)
              \/ \E p \in Starts : Kill(p)
              \/ ClearHistory]_vars

\* the session commands of main, run from another terminal: --login saves
\* an X.com session, --logout removes it, --bw-login overwrites the
\* BuiltWith cookie file with what the operator pastes (load_bw_session
\* reads it as a session only if it holds BWSSON or ASP.NET_SessionId)
SessionCommand ==
    /\ \/ xSession' \in BOOLEAN \ {xSession} /\ UNCHANGED bwSession
       \/ bwSession' \in BOOLEAN \ {bwSession} /\ UNCHANGED xSession
    /\ UNCHANGED <<procs, args, pidFile, historyFile, pc, history, analysed,
                   running, ticks, pidRead, cycles, stopPc, stopPid>>
    /\ UNCHANGED <<fofaVars, lookupVars, anVars>>

\* one scheduler and its cycles while the operator changes the sessions
SpecSessions ==
    InitCycles
        /\ [][\/ \E p \in Starts : Validate(p)
              \/ \E p \in Starts : ReadPid(p)
              \/ \E p \in Starts : CheckPid(p)
              \/ \E p \in Starts : Load(p)
              \/ \E p \in Starts : Scan(p)
              \/ \E p \in Starts : ScanRaise(p)
              \/ \E p \in Starts : Save(p)
              \/ \E p \in Starts : SaveRaise(p)
              \/ \E p \in Starts : Daemonize(p)
              \/ \E p \in Starts : InstallHandlers(p)
              \/ \E p \in Starts : LoopTop(p)
              \/ \E p \in Starts : SleepTick(p)
              \/ \E p \in Starts : AfterSleep(p)
              \/ \E p \in Starts : Backoff(p)
              \/ \E p \in Starts : Kill(p)
              \/ SessionCommand]_vars

(***************************************************************************)
(* FofaCollector._fofa_search: cursor pagination of /search/next.          *)
(***************************************************************************)
\* requests one search may issue in a behaviour of the model
MaxFofaRequests == 6

\* FofaCollector(max_pages=5): the default of --fofa-pages, stored in
\* self.max_pages; _fofa_search does not read it
max_pages == 5

\* one iteration of "while True": the new all_results, the new
\* params["next"] and whether the loop goes on
fofa_iteration_mut(all, nxt, resp) ==
    IF resp.kind # "ok" \/ resp.error \/ resp.results = <<>>
    THEN [all |-> all, next |-> nxt, pc |-> "done"]
    ELSE IF resp.next = 0
    THEN [all |-> all \o resp.results, next |-> nxt, pc |-> "done"]
    ELSE [all |-> all \o resp.results, next |-> nxt, pc |-> "loop"]

fofa_iteration(all, nxt, resp) ==
    IF resp.kind = "http401" THEN [all |-> all, next |-> nxt, pc |-> "done"]
    ELSE IF resp.kind # "ok" THEN [all |-> all, next |-> nxt, pc |-> "done"]
    ELSE IF resp.error THEN [all |-> all, next |-> nxt, pc |-> "done"]
    ELSE IF resp.results = <<>> THEN [all |-> all, next |-> nxt, pc |-> "done"]
    ELSE IF resp.next = 0
    THEN [all |-> all \o resp.results, next |-> nxt, pc |-> "done"]
    ELSE [all |-> all \o resp.results, next |-> resp.next, pc |-> "loop"]

\* all_results = []; params without "next"; page = 0
FofaStart ==
    /\ fPc = "idle"
    /\ fPc' = "loop"
    /\ fPage' = 0
    /\ fNext' = 0
    /\ fAll' = <<>>
    /\ UNCHANGED <<fRequests, fResponses>>
    /\ UNCHANGED <<schedVars, lookupVars, anVars>>

\* page += 1; resp = self.session.get(FOFA_NEXT_API_URL, params=params)
FofaRequest ==
    /\ fPc = "loop"
    /\ Len(fRequests) < MaxFofaRequests
    \* what the API may answer: a 200 response with a JSON body (error
    \* payload or not, a result page of rows 1 and 2, a continuation token
    \* 1 or 2, or 0 for none), or a failure of the request
    /\ \E resp \in [kind : {"ok"}, error : BOOLEAN,
                     results : {<<>>, <<1>>, <<2>>}, next : {0, 1, 2}]
                    \cup [kind : {"http401", "http_error", "timeout",
                                  "invalid_json"},
                          error : {FALSE}, results : {<<>>}, next : {0}] :
         LET it == fofa_iteration(fAll, fNext, resp)
         IN  /\ fResponses' = Append(fResponses, resp)
             /\ fAll' = it.all
             /\ fNext' = it.next
             /\ fPc' = it.pc
    /\ fPage' = fPage + 1
    /\ fRequests' = Append(fRequests, fNext)
    /\ UNCHANGED <<schedVars, lookupVars, anVars>>

SchedIdle == InitWith({}, {a \in ArgsGtm : ~a.deep}, {TRUE}, "idle")

InitFofa == SchedIdle /\ FofaIdle /\ LookupIdleWith({FALSE}) /\ AnalyzeIdle

SpecFofa == InitFofa /\ [][FofaStart \/ FofaRequest]_vars

\* C8 as stated: when the API answers with result pages (every response is
\* a 200 response without error payload), the search ends only on a
\* response without token (n responses with a token, then one without:
\* n + 1 requests), each request carries the token of the response before,
\* and the search returns all the result pages in order.
C8_FollowsEveryToken ==
    LET RECURSIVE ConcatPages(_)
        ConcatPages(rs) ==
            IF rs = <<>> THEN <<>> ELSE rs[1].results \o ConcatPages(Tail(rs))
    IN  (/\ fPc = "done"
         /\ \A i \in 1..Len(fResponses) :
               fResponses[i].kind = "ok" /\ ~fResponses[i].error) =>
            /\ fResponses[Len(fResponses)].next = 0
            /\ fPage = Len(fResponses)
            /\ Len(fRequests) = Len(fResponses)
            /\ \A i \in 1..Len(fRequests) :
                  fRequests[i] = IF i = 1 THEN 0 ELSE fResponses[i - 1].next
            /\ fAll = ConcatPages(fResponses)

\* C8 amended: the same, when every response that carries a token has a
\* non-empty result page.
C8_FollowsTokensOfCleanPages ==
    LET RECURSIVE ConcatPages(_)
        ConcatPages(rs) ==
            IF rs = <<>> THEN <<>> ELSE rs[1].results \o ConcatPages(Tail(rs))
    IN  (/\ fPc = "done"
         /\ \A i \in 1..Len(fResponses) :
               /\ fResponses[i].kind = "ok" /\ ~fResponses[i].error
               /\ fResponses[i].next # 0 => fResponses[i].results # <<>>) =>
            /\ fResponses[Len(fResponses)].next = 0
            /\ fPage = Len(fResponses)
            /\ Len(fRequests) = Len(fResponses)
            /\ \A i \in 1..Len(fRequests) :
                  fRequests[i] = IF i = 1 THEN 0 ELSE fResponses[i - 1].next
            /\ fAll = ConcatPages(fResponses)

\* C8 witness: three responses with a token and a result page, then one
\* without token: four requests and four pages.
C8_Witness ==
    /\ fPc = "done"
    /\ \A i \in 1..Len(fResponses) :
          /\ fResponses[i].kind = "ok" /\ ~fResponses[i].error
          /\ fResponses[i].next # 0 => fResponses[i].results # <<>>
    /\ Len(fResponses) = 4
    /\ Len(fRequests) = 4
    /\ Len(fAll) = 4
    /\ fResponses[1].next # fResponses[2].next

\* C17: the pagination loop is bounded by a page ceiling: a search issues at
\* most max_pages requests, whatever tokens the API returns.
C17_AtMostMaxPages == fPage <= max_pages /\ Len(fRequests) <= max_pages

(***************************************************************************)
(* Strings, as Python's str methods and the program's patterns use them.  *)
(***************************************************************************)
\* the characters of s, as a set of one-character strings
chars_of(s) == {SubSeq(s, k, k) : k \in 1..Len(s)}

\* c in s, for a one-character c
has_char(s, c) == c \in chars_of(s)

least(S) == CHOOSE x \in S : \A y \in S : x <= y

greatest(S) == CHOOSE x \in S : \A y \in S : y <= x

\* s[i-1:j] of Python, with 1-based inclusive bounds
substr(s, i, j) ==
    IF i < 1 \/ i > Len(s) \/ j < i THEN ""
    ELSE SubSeq(s, i, IF j > Len(s) THEN Len(s) ELSE j)

char_at(s, i) == substr(s, i, i)

\* the character classes of the patterns and of str.isdigit, isalpha,
\* isalnum, each with its set of characters; for url (the class of
\* URL_PATTERN) and text (the class of the patterns of
\* _extract_interesting_strings) the set holds the characters the class
\* excludes (but for the grave accent, which no string of this module
\* contains)
CharClasses ==
    LET lo   == "abcdefghijklmnopqrstuvwxyz"
        up   == "ABCDEFGHIJKLMNOPQRSTUVWXYZ"
        dg   == "0123456789"
    IN  [url           |-> chars_of(" \t\n\r'\"<>{}|\\^[]"),
         text          |-> chars_of(" \t\n\r\"'<>"),
         space         |-> chars_of(" \t\n\r"),
         mail          |-> chars_of(lo \o up \o dg \o "_.+-"),
         word_dash     |-> chars_of(lo \o up \o dg \o "_-"),
         word_dot_dash |-> chars_of(lo \o up \o dg \o "_.-"),
         word_dot      |-> chars_of(lo \o up \o dg \o "_."),
         label         |-> chars_of(lo \o up \o dg \o "-"),
         word          |-> chars_of(lo \o up \o dg \o "_"),
         alnum         |-> chars_of(lo \o up \o dg),
         alpha         |-> chars_of(lo \o up),
         upper         |-> chars_of(up),
         hex           |-> chars_of(dg \o "abcdefABCDEF"),
         digit         |-> chars_of(dg)]

\* c is a character of the class
in_class(c, cls) ==
    c # "" /\ (c \in CharClasses[cls]) # (cls \in {"url", "text"})

\* the letters of one case, each mapped to the letter at its place in the
\* other
CaseMaps ==
    LET lo == "abcdefghijklmnopqrstuvwxyz"
        up == "ABCDEFGHIJKLMNOPQRSTUVWXYZ"
        char_map(from, to) ==
            [c \in chars_of(from) |->
                LET k == CHOOSE k \in 1..Len(from) : SubSeq(from, k, k) = c
                IN  SubSeq(to, k, k)]
    IN  [lower |-> char_map(up, lo), upper |-> char_map(lo, up)]

\* every character of s mapped by the table, one half of s after the other
RECURSIVE map_chars(_, _)
map_chars(s, table) ==
    IF Len(s) <= 1 THEN IF s \in DOMAIN table THEN table[s] ELSE s
    ELSE map_chars(SubSeq(s, 1, Len(s) \div 2), table)
            \o map_chars(SubSeq(s, Len(s) \div 2 + 1, Len(s)), table)

\* str.lower() and str.upper()
lower(s) == map_chars(s, CaseMaps.lower)

upper(s) == map_chars(s, CaseMaps.upper)

\* str.rstrip(chars)
rstrip(s, chars) ==
    LET keep == {k \in 1..Len(s) : ~has_char(chars, SubSeq(s, k, k))}
    IN  IF keep = {} THEN "" ELSE SubSeq(s, 1, greatest(keep))

\* str.strip(chars); strip() without argument strips white space
strip_chars(s, chars) ==
    LET keep == {k \in 1..Len(s) : ~has_char(chars, SubSeq(s, k, k))}
    IN  IF keep = {} THEN "" ELSE SubSeq(s, least(keep), greatest(keep))

strip(s) == strip_chars(s, " \t\n\r")

startswith(s, prefix) ==
    Len(prefix) <= Len(s) /\ SubSeq(s, 1, Len(prefix)) = prefix

endswith(s, suffix) ==
    Len(suffix) <= Len(s)
        /\ SubSeq(s, Len(s) - Len(suffix) + 1, Len(s)) = suffix

\* sub in s
contains(s, sub) ==
    \E i \in 1..(Len(s) - Len(sub) + 1) : SubSeq(s, i, i + Len(sub) - 1) = sub

\* s.split(sep) for a one-character sep: the pieces between one separator
\* (or the start) and the next (or the end)
split(s, sep) ==
    LET cuts   == {0, Len(s) + 1} \cup {k \in 1..Len(s) : SubSeq(s, k, k) = sep}
        cut(i) == CHOOSE k \in cuts : Cardinality({j \in cuts : j < k}) = i - 1
    IN  [i \in 1..(Cardinality(cuts) - 1) |->
            substr(s, cut(i) + 1, cut(i + 1) - 1)]

\* all(pred(c) for c in s), for the character classes the program tests
all_digits_or_dots(s) ==
    \A k \in 1..Len(s) :
        in_class(SubSeq(s, k, k), "digit") \/ SubSeq(s, k, k) = "."

(***************************************************************************)
(* GTMAnalyzer._is_valid_domain and the tables it reads.                  *)
(***************************************************************************)
VALID_TLDS ==
    {"com", "net", "org", "io", "co", "us", "uk", "de", "fr", "br", "ru",
     "cn", "jp", "in", "au", "ca", "it", "es", "nl", "se", "no", "fi",
     "pl", "cz", "at", "ch", "be", "dk", "pt", "ie", "nz", "za", "mx",
     "ar", "cl", "kr", "tw", "hk", "sg", "my", "th", "ph", "id", "vn",
     "tr", "il", "ae", "sa", "eg", "ng", "ke", "gh", "info", "biz", "xyz",
     "online", "site", "tech", "app", "dev", "cloud", "ai", "me", "tv",
     "cc", "edu", "gov", "mil", "int", "pro", "museum", "aero", "coop",
     "travel", "jobs", "mobi", "cat", "asia", "tel", "name", "ly",
     "gg", "sh", "ms", "to", "fm", "am", "la", "rs", "is", "lt", "lv",
     "ee", "hr", "bg", "ro", "sk", "si", "hu", "ua", "by", "kz", "ge",
     "md", "az", "uz", "tm", "kg", "tj",
     "co.uk", "co.jp", "co.kr", "co.in", "co.za", "co.nz", "co.id",
     "com.br", "com.au", "com.cn", "com.mx", "com.ar", "com.tr", "com.sg",
     "com.hk", "com.tw", "com.ph", "com.my", "com.vn", "com.eg", "com.ng",
     "com.ua", "com.co",
     "org.uk", "org.au", "org.br",
     "net.au", "net.br",
     "ac.uk", "ac.jp", "ac.kr"}

FALSE_POSITIVE_TLDS ==
    {"id", "name", "type", "value", "length", "data", "key", "text"}

\* _FALSE_POSITIVE_PATTERNS.match(s): one of the words, in any letter case,
\* at the start of s and followed by a word boundary
false_positive_match(s) ==
    LET words ==
            {"module", "application", "interaction", "asset", "card", "user",
             "pageview", "marketing", "event", "element", "container", "session",
             "page", "request", "response", "object", "item", "document", "window",
             "navigator", "location", "screen", "history", "cookie", "storage",
             "click", "scroll", "submit", "load", "error", "input", "change",
             "focus", "blur", "resize"}
    IN  \E w \in words :
            /\ startswith(lower(s), w)
            /\ \/ Len(s) = Len(w)
               \/ ~in_class(SubSeq(s, Len(w) + 1, Len(w) + 1), "word")

is_valid_domain_mut(domain) ==
    LET parts == split(domain, ".")
        tld   == parts[Len(parts)]
    IN  IF domain = "" \/ Len(domain) < 4 THEN FALSE
        ELSE IF ~contains(domain, ".") THEN FALSE
        ELSE IF all_digits_or_dots(domain) THEN FALSE
        ELSE IF Len(parts) < 2 THEN FALSE
        ELSE IF false_positive_match(parts[1]) THEN FALSE
        ELSE IF Len(parts) >= 3
                  /\ (parts[Len(parts) - 1] \o "." \o tld) \in VALID_TLDS
        THEN TRUE
        ELSE tld \in VALID_TLDS

is_valid_domain(domain) ==
    LET parts == split(domain, ".")
        tld   == parts[Len(parts)]
    IN  IF domain = "" \/ Len(domain) < 4 THEN FALSE
        ELSE IF ~contains(domain, ".") THEN FALSE
        ELSE IF all_digits_or_dots(domain) THEN FALSE
        ELSE IF Len(parts) < 2 THEN FALSE
        ELSE IF tld \in FALSE_POSITIVE_TLDS THEN FALSE
        ELSE IF /\ false_positive_match(parts[1])
                /\ \/ tld \notin VALID_TLDS
                   \/ /\ Len(parts) = 2
                      /\ tld \in {"co", "io", "me", "to", "is", "am",
                                  "it", "at", "no"}
                      /\ Len(parts[1]) <= 3
        THEN FALSE
        ELSE IF Len(parts) >= 3
                  /\ (parts[Len(parts) - 1] \o "." \o tld) \in VALID_TLDS
        THEN TRUE
        ELSE tld \in VALID_TLDS

(***************************************************************************)
(* GTMReverseLookup.lookup: the seven sources and the final filter.       *)
(***************************************************************************)
MaxSearchRequests == 4

\* The sources lookup queries before FOFA, in its order.
Sources == <<"builtwith", "publicwww", "spyonweb", "wayback", "duckduckgo",
             "google">>

\* Every source lookup queries, in its order.
AllSources == Sources \o <<"fofa">>

\* What one request of a source ends in: a 200 response the source parses to
\* the end, a non-200 response, an exception raised before anything was
\* appended (the request itself, or a body that does not parse), or, in the
\* row loop over the CDX body, an exception raised by a row that is not a list
\* after `parsed` had been appended.
SourceOutcomes(s) ==
    LET \* the domain the source's page names when it names one
        named ==
            CASE s = "builtwith"  -> "a.com"
              [] s = "publicwww"  -> "favicon.ico"
              [] s = "spyonweb"   -> "a.com"
              [] s = "wayback"    -> "a.com:8080"
              [] s = "duckduckgo" -> "maps.google.com"
              [] s = "google"     -> "b.net"
    IN  [kind : {"ok"}, parsed : {<<>>, <<named>>}]
            \cup [kind : {"http_error", "request_exception"}, parsed : {<<>>}]
            \cup IF s = "wayback"
                 THEN [kind : {"parse_exception"}, parsed : {<<named>>}]
                 ELSE {}

RECURSIVE Entries(_, _)
Entries(domains, source) ==
    IF domains = <<>> THEN <<>>
    ELSE <<[domain |-> Head(domains), source |-> source]>>
             \o Entries(Tail(domains), source)

\* The body of a _search_* function: its try block appends as it parses and
\* the function returns the list as it stands.
search_source(s, o) == Entries(o.parsed, s)

\* `except Exception: pass` around the body of every source.
source_raises_mut(o) == o.kind \in {"request_exception", "parse_exception"}

source_raises(o) == FALSE

\* _search_builtwith: the trends page is requested when the relationships
\* page yielded nothing.
search_builtwith(primary, trends) ==
    IF search_source("builtwith", primary) # <<>>
    THEN search_source("builtwith", primary)
    ELSE search_source("builtwith", trends)

DomainsOf(results) == {results[i].domain : i \in 1..Len(results)}

RECURSIVE add_rows(_, _)
add_rows(results, rows) ==
    IF rows = <<>> THEN results
    ELSE LET \* the host column of the row and the domain the loop keeps of
             \* it: the text before the first ":", lower-cased, kept when it
             \* has a dot and more than three characters
             domain == CASE Head(rows) = "b.net:443"     -> "b.net"
                         [] Head(rows) = "c.org"         -> "c.org"
                         [] Head(rows) = "https://c.org" -> ""
         IN  IF domain # "" /\ domain \notin DomainsOf(results)
             THEN add_rows(Append(results, [domain |-> domain, source |-> "fofa"]),
                           Tail(rows))
             ELSE add_rows(results, Tail(rows))

NumQueries == 3

\* One iteration of the `while True` of _search_fofa and the two lines after
\* the loop: the results, api_failed, params["next"] and where control goes.
search_fofa_iteration(results, query, resp) ==
    IF resp.kind = "http_error" \/ (resp.kind = "ok" /\ resp.error)
    THEN [results |-> results, failed |-> TRUE, next |-> 0, goto |-> "fofa_end"]
    ELSE IF resp.kind = "exception"
    THEN [results |-> add_rows(results, resp.rows), failed |-> TRUE, next |-> 0,
          goto |-> "fofa_end"]
    ELSE IF resp.next = 0
    THEN [results |-> add_rows(results, resp.rows), failed |-> FALSE, next |-> 0,
          goto |-> IF query < NumQueries THEN "fofa_query" ELSE "fofa_end"]
    ELSE [results |-> add_rows(results, resp.rows), failed |-> FALSE,
          next |-> resp.next, goto |-> "fofa_api"]

\* `if api_failed and not results`.
fofa_falls_back_mut(failed, results) == failed

fofa_falls_back(failed, results) == failed /\ results = <<>>

\* fofa_web_reverse_lookup: the body query, then the plain query when the
\* first found nothing; fofa_web_search returns a list whatever happens.
fofa_web_reverse_lookup(raw1, raw2) ==
    IF raw1 # <<>> THEN Entries(raw1, "fofa-web") ELSE Entries(raw2, "fofa-web")

\* The filter at the end of lookup.
\* valid_tld.search(domain)
valid_tld(domain) ==
    LET tlds ==
            {"com", "net", "org", "io", "co", "br", "de", "fr", "uk", "es", "it",
             "nl", "ru", "cn", "jp", "au", "ca", "in", "mx", "ar", "cl", "pe", "gr",
             "pl", "se", "dk", "no", "mu", "cc", "site", "online", "store", "fun",
             "shop", "app", "dev", "tech", "biz", "info", "us", "eu", "pt", "cz",
             "at", "ch", "be", "fi", "ie", "nz", "za", "kr", "tw", "hk", "sg",
             "co.uk", "com.br", "com.au", "co.za", "com.mx", "com.ar", "com.hk",
             "com.co", "com.pe", "com.cl"}
    IN  \E t \in tlds : endswith(domain, "." \o t)

\* re.match(r'^[a-zA-Z0-9][a-zA-Z0-9.-]+[a-zA-Z]{2,}$', domain)
domain_shape(domain) ==
    /\ Len(domain) >= 4
    /\ in_class(Head(domain), "alnum")
    /\ \A k \in 1..Len(domain) :
          \/ in_class(SubSeq(domain, k, k), "alnum")
          \/ has_char(".-", SubSeq(domain, k, k))
    /\ in_class(SubSeq(domain, Len(domain) - 1, Len(domain) - 1), "alpha")
    /\ in_class(SubSeq(domain, Len(domain), Len(domain)), "alpha")

\* any(s in domain for s in skip)
skipped(domain) ==
    LET skip ==
            {"google.", "bing.", "yahoo.", "duckduckgo.", "youtube.", "gstatic.",
             "googleapis.", "schema.org", "w3.org", "twitter.com", "x.com",
             "facebook.com", "reddit.com", "builtwith.com", "publicwww.com",
             "spyonweb.com", "web.archive.org", "doubleclick.net",
             "googlesyndication.", "gmail.com"}
    IN  \E s \in skip : contains(domain, s)

RECURSIVE dedupe_mut(_, _)
dedupe_mut(results, unique) ==
    IF results = <<>> THEN unique
    ELSE LET r      == Head(results)
             domain == strip(lower(r.domain))
         IN  IF /\ domain # ""
                /\ r.domain \notin DomainsOf(unique)
                /\ valid_tld(domain)
                /\ domain_shape(domain)
                /\ ~skipped(domain)
             THEN dedupe_mut(Tail(results),
                             Append(unique, [r EXCEPT !.domain = domain]))
             ELSE dedupe_mut(Tail(results), unique)

RECURSIVE dedupe(_, _)
dedupe(results, unique) ==
    IF results = <<>> THEN unique
    ELSE LET r      == Head(results)
             domain == strip(lower(r.domain))
         IN  IF /\ domain # ""
                /\ domain \notin DomainsOf(unique)
                /\ valid_tld(domain)
                /\ domain_shape(domain)
                /\ ~skipped(domain)
             THEN dedupe(Tail(results),
                         Append(unique, [r EXCEPT !.domain = domain]))
             ELSE dedupe(Tail(results), unique)

\* lookup is called: `results = []`.
LookupStart ==
    /\ lPc = "idle"
    /\ lPc' = "builtwith"
    /\ UNCHANGED <<lResults, lQueried, lLast, lAnyOk, lUnique, fofaKey, sQuery,
                   sNext, sCount, sResults, sFailed, sTier, sReturn>>
    /\ UNCHANGED <<schedVars, fofaVars, anVars>>

\* results.extend(self._search_builtwith(gtm_id))
SearchBuiltwith ==
    /\ lPc = "builtwith"
    /\ \E primary \in SourceOutcomes("builtwith"),
          trends \in SourceOutcomes("builtwith") :
          LET first  == search_source("builtwith", primary)
              last   == IF first # <<>> THEN primary ELSE trends
              raises == source_raises(primary)
                            \/ (first = <<>> /\ source_raises(trends))
              found  == search_builtwith(primary, trends)
          IN  IF raises
              THEN /\ lPc' = "raised"
                   /\ UNCHANGED <<lResults, lQueried, lLast, lAnyOk>>
              ELSE /\ lPc' = Sources[2]
                   /\ lResults' = lResults \o found
                   /\ lQueried' = Append(lQueried, "builtwith")
                   /\ lLast' = [kind |-> last.kind, count |-> Len(found)]
                   /\ lAnyOk' = (lAnyOk \/ last.kind \in {"ok", "parse_exception"})
    /\ UNCHANGED <<lUnique, fofaKey, sQuery, sNext, sCount, sResults, sFailed,
                   sTier, sReturn>>
    /\ UNCHANGED <<schedVars, fofaVars, anVars>>

\* results.extend(self._search_<source>(gtm_id)) for the five sources between
\* BuiltWith and FOFA.
SearchSource(i) ==
    /\ lPc = Sources[i]
    /\ \E o \in SourceOutcomes(Sources[i]) :
          LET found == search_source(Sources[i], o)
          IN  IF source_raises(o)
              THEN /\ lPc' = "raised"
                   /\ UNCHANGED <<lResults, lQueried, lLast, lAnyOk>>
              ELSE /\ lPc' = IF i < Len(Sources) THEN Sources[i + 1] ELSE "fofa"
                   /\ lResults' = lResults \o found
                   /\ lQueried' = Append(lQueried, Sources[i])
                   /\ lLast' = [kind |-> o.kind, count |-> Len(found)]
                   /\ lAnyOk' = (lAnyOk \/ o.kind \in {"ok", "parse_exception"})
    /\ UNCHANGED <<lUnique, fofaKey, sQuery, sNext, sCount, sResults, sFailed,
                   sTier, sReturn>>
    /\ UNCHANGED <<schedVars, fofaVars, anVars>>

\* FofaCollector.reverse_lookup called on its own, as scans do.
ReverseLookupStart ==
    /\ lPc = "idle"
    /\ lPc' = "fofa"
    /\ UNCHANGED <<lResults, lQueried, lLast, lAnyOk, lUnique, fofaKey, sQuery,
                   sNext, sCount, sResults, sFailed, sTier, sReturn>>
    /\ UNCHANGED <<schedVars, fofaVars, anVars>>

\* The head of _search_fofa / reverse_lookup: without a key, straight to the
\* web scraper; with one, the first query.
SearchFofaStart ==
    /\ lPc = "fofa"
    /\ IF ~fofaKey
       THEN /\ lPc' = "fofa_web"
            /\ UNCHANGED <<sQuery, sNext, sResults, sFailed>>
       ELSE /\ lPc' = "fofa_api"
            /\ sQuery' = 1
            /\ sNext' = 0
            /\ sResults' = <<>>
            /\ sFailed' = FALSE
    /\ UNCHANGED <<lResults, lQueried, lLast, lAnyOk, lUnique, fofaKey, sCount, sTier,
                   sReturn>>
    /\ UNCHANGED <<schedVars, fofaVars, anVars>>

\* One request of the pagination loop and what follows it.
SearchFofaRequest ==
    /\ lPc = "fofa_api"
    /\ sCount < MaxSearchRequests
    \* what a request to /search/next ends in; `rows` of an exception are
    \* the rows the loop had processed when it was raised
    /\ \E resp \in
          [kind : {"http_error"}, error : {FALSE}, rows : {<<>>}, next : {0}]
            \cup [kind : {"exception"}, error : {FALSE},
                  rows : {<<>>, <<"c.org">>, <<"b.net:443", "https://c.org">>},
                  next : {0}]
            \cup [kind : {"ok"}, error : {TRUE}, rows : {<<>>}, next : {0}]
            \cup [kind : {"ok"}, error : {FALSE},
                  rows : {<<>>, <<"c.org">>, <<"b.net:443", "https://c.org">>},
                  next : {0, 1}] :
          LET it == search_fofa_iteration(sResults, sQuery, resp)
          IN  /\ sResults' = it.results
              /\ sFailed' = it.failed
              /\ sNext' = it.next
              /\ sQuery' = IF it.goto = "fofa_query" THEN sQuery + 1 ELSE sQuery
              /\ lPc' = IF it.goto = "fofa_end" THEN "fofa_end" ELSE "fofa_api"
    /\ sCount' = sCount + 1
    /\ UNCHANGED <<lResults, lQueried, lLast, lAnyOk, lUnique, fofaKey, sTier, sReturn>>
    /\ UNCHANGED <<schedVars, fofaVars, anVars>>

\* After the queries: the web scraper, or the API's results.
SearchFofaEnd ==
    /\ lPc = "fofa_end"
    /\ IF fofa_falls_back(sFailed, sResults)
       THEN /\ lPc' = "fofa_web"
            /\ UNCHANGED <<sTier, sReturn>>
       ELSE /\ lPc' = "fofa_return"
            /\ sTier' = "api"
            /\ sReturn' = sResults
    /\ UNCHANGED <<lResults, lQueried, lLast, lAnyOk, lUnique, fofaKey, sQuery,
                   sNext, sCount, sResults, sFailed>>
    /\ UNCHANGED <<schedVars, fofaVars, anVars>>

\* return fofa_web_reverse_lookup(gtm_id)
FofaWeb ==
    /\ lPc = "fofa_web"
    /\ \E raw1 \in {<<>>, <<"c.org">>}, raw2 \in {<<>>, <<"c.org">>} :
          sReturn' = fofa_web_reverse_lookup(raw1, raw2)
    /\ sTier' = "web"
    /\ lPc' = "fofa_return"
    /\ UNCHANGED <<lResults, lQueried, lLast, lAnyOk, lUnique, fofaKey, sQuery,
                   sNext, sCount, sResults, sFailed>>
    /\ UNCHANGED <<schedVars, fofaVars, anVars>>

\* reverse_lookup called on its own hands its list to the caller.
ReverseLookupReturn ==
    /\ lPc = "fofa_return"
    /\ lQueried = <<>>
    /\ lPc' = "returned"
    /\ UNCHANGED <<lResults, lQueried, lLast, lAnyOk, lUnique, fofaKey, sQuery,
                   sNext, sCount, sResults, sFailed, sTier, sReturn>>
    /\ UNCHANGED <<schedVars, fofaVars, anVars>>

\* results.extend(self._search_fofa(gtm_id)), the filter, `return unique`.
LookupReturn ==
    /\ lPc = "fofa_return"
    /\ lQueried # <<>>
    /\ lResults' = lResults \o sReturn
    /\ lQueried' = Append(lQueried, "fofa")
    /\ lLast' = [kind |-> IF sFailed THEN "api_failed" ELSE "ok",
                 count |-> Len(sReturn)]
    /\ UNCHANGED lAnyOk
    /\ lUnique' = dedupe(lResults \o sReturn, <<>>)
    /\ lPc' = "done"
    /\ UNCHANGED <<fofaKey, sQuery, sNext, sCount, sResults, sFailed, sTier,
                   sReturn>>
    /\ UNCHANGED <<schedVars, fofaVars, anVars>>

InitLookup ==
    SchedIdle /\ FofaIdle /\ LookupIdleWith(BOOLEAN) /\ AnalyzeIdle

SpecLookup ==
    InitLookup
        /\ [][\/ LookupStart
              \/ SearchBuiltwith
              \/ \E i \in 2..Len(Sources) : SearchSource(i)
              \/ SearchFofaStart
              \/ SearchFofaRequest
              \/ SearchFofaEnd
              \/ FofaWeb
              \/ LookupReturn]_vars

SpecReverse ==
    InitLookup
        /\ [][\/ ReverseLookupStart
              \/ SearchFofaStart
              \/ SearchFofaRequest
              \/ SearchFofaEnd
              \/ FofaWeb
              \/ ReverseLookupReturn]_vars

MaxResults == 3

\* position of a source in lookup's query order
SourceIndex(s) == CHOOSE i \in 1..Len(AllSources) : AllSources[i] = s

\* lookup has queried its sources and is about to filter their lists:
\* `results` before FOFA is queried holds entries in the order of their
\* sources.  The filter lower-cases and strips the domains itself and does
\* not rely on the sources having done so.
InitFilter ==
    /\ SchedIdle
    /\ FofaIdle
    /\ AnalyzeIdle
    /\ lPc = "fofa_return"
    /\ lResults \in
          {l \in UNION {[1..n -> [domain : {"a.com", "A.com ", "b.net",
                                            "example.shop", "maps.google.com",
                                            ""},
                                  source : {"builtwith", "google"}]] :
                            n \in 0..MaxResults} :
              \A i \in 1..(Len(l) - 1) :
                  SourceIndex(l[i].source) <= SourceIndex(l[i + 1].source)}
    /\ lQueried = Sources
    /\ lLast = [kind |-> "ok", count |-> 0]
    /\ lAnyOk = TRUE
    /\ lUnique = <<>>
    /\ fofaKey = FALSE
    /\ sQuery = 0
    /\ sNext = 0
    /\ sCount = 0
    /\ sResults = <<>>
    /\ sFailed = FALSE
    /\ sTier = "web"
    /\ sReturn \in {<<>>, <<[domain |-> "a.com", source |-> "fofa"]>>}

SpecFilter == InitFilter /\ [][LookupReturn]_vars

\* C11: the list lookup returns has no two entries with the same lowercase
\* domain, and the entry kept for a domain comes from the earliest source,
\* in query order, that named it.
C11_FirstSourceWins ==
    lPc = "done" =>
        /\ \A i, j \in 1..Len(lUnique) :
              lower(lUnique[i].domain) = lower(lUnique[j].domain) => i = j
        /\ \A i \in 1..Len(lUnique) : \A k \in 1..Len(lResults) :
              strip(lower(lResults[k].domain)) = lUnique[i].domain =>
                  SourceIndex(lUnique[i].source)
                      <= SourceIndex(lResults[k].source)

\* Two sources name the same domain, one with capitals, FOFA names it
\* too, and one entry is returned for it.
C11_Witness ==
    /\ lPc = "done"
    /\ Len(lResults) = 3
    /\ lResults[1] = [domain |-> "A.com ", source |-> "builtwith"]
    /\ lResults[2] = [domain |-> "a.com", source |-> "google"]
    /\ lResults[3].source = "fofa"
    /\ lUnique = <<[domain |-> "a.com", source |-> "builtwith"]>>

\* C12: every domain lookup returns passes _is_valid_domain and is not on the
\* denylist.
C12_OutputPassesValidity ==
    lPc = "done" =>
        \A i \in 1..Len(lUnique) :
            /\ is_valid_domain(lUnique[i].domain)
            /\ ~skipped(lUnique[i].domain)

(***************************************************************************)
(* The patterns of the extraction engine.                                  *)
(***************************************************************************)
\* how many characters are consumed at a time when a run is followed
Stride == 8

\* the index after the longest run, of at most max characters of the class,
\* that starts at i
RECURSIVE run_end(_, _, _, _)
run_end(s, i, cls, max) ==
    LET n    == IF max < Stride THEN max ELSE Stride
        stop == {j \in i..(i + n - 1) : ~in_class(char_at(s, j), cls)}
    IN  IF n <= 0 \/ i > Len(s) THEN i
        ELSE IF stop # {} THEN least(stop)
        ELSE run_end(s, i + n, cls, max - n)

\* s.find(t, i - 1) + 1: where t first stands at or after i, 0 if nowhere
find_sub(s, t, i) ==
    LET P == {k \in i..(Len(s) - Len(t) + 1) : SubSeq(s, k, k + Len(t) - 1) = t}
    IN  IF i < 1 \/ P = {} THEN 0 ELSE least(P)

\* where a character of `chars` first stands at or after i, 0 if nowhere
find_first(s, chars, i) ==
    LET P == {k \in i..Len(s) : has_char(chars, char_at(s, k))}
    IN  IF i < 1 \/ P = {} THEN 0 ELSE least(P)

\* the index after the literal t when it stands at i, 0 when it does not or
\* when i is 0 (an earlier part of the pattern did not match)
lit(s, i, t) ==
    IF i > 0 /\ substr(s, i, i + Len(t) - 1) = t THEN i + Len(t) ELSE 0

\* one of the two quote characters at i
quote(s, i) ==
    IF i > 0 /\ char_at(s, i) \in {"\"", "'"} THEN i + 1 ELSE 0

\* \s* and \s+ at i
ws0(s, i) == IF i = 0 THEN 0 ELSE run_end(s, i, "space", Len(s))

\* \s*:\s* at i
colon(s, i) == ws0(s, lit(s, ws0(s, i), ":"))

\* one or more characters of the class at i
run1(s, i, cls) ==
    IF i > 0 /\ run_end(s, i, cls, Len(s)) > i
    THEN run_end(s, i, cls, Len(s))
    ELSE 0

\* A match of a pattern: the index after it, and where its group (or, for a
\* pattern without group, the match itself) begins and ends.
Match(end, from, to) == [end |-> end, from |-> from, to |-> to]

NoMatch == Match(0, 0, 0)

\* pattern.finditer(s), given for every index the match that starts there:
\* the groups of the matches that do not overlap, from the left
RECURSIVE finditer(_, _, _)
finditer(s, at, i) ==
    LET P == {k \in i..Len(s) : at[k].end > 0}
        k == least(P)
    IN  IF P = {} THEN <<>>
        ELSE <<substr(s, at[k].from, at[k].to)>> \o finditer(s, at, at[k].end)

\* the index after http:// or https:// at i, 0 when neither stands there;
\* in any letter case when the pattern ignores case
scheme_end(s, i, ignorecase) ==
    LET t == IF ignorecase THEN lower(substr(s, i, i + 7))
             ELSE substr(s, i, i + 7)
    IN  IF substr(t, 1, 7) = "http://" THEN i + 7
        ELSE IF t = "https://" THEN i + 8
        ELSE 0

\* URL_PATTERN: http or https, ://, then one or more characters that are
\* neither white space nor in the class url_stop
url_matches(s) ==
    LET at(k) ==
            LET p == scheme_end(s, k, FALSE)
                e == run1(s, p, "url")
            IN  IF e > 0 THEN Match(e, k, e - 1) ELSE NoMatch
    IN  finditer(s, [k \in 1..Len(s) |-> at(k)], 1)

\* urllib.parse.urlparse(url).hostname for a match of URL_PATTERN: the
\* network location without user information and port, lower-cased
hostname(url) ==
    LET \* where a character of `chars` last stands at or before i, 0 if nowhere
        find_last(s, chars, i) ==
            LET P == {k \in 1..i : has_char(chars, char_at(s, k))}
            IN  IF P = {} THEN 0 ELSE greatest(P)
        \* the text before the first of `chars`, all of s when there is none
        before_first(s, chars) ==
            IF find_first(s, chars, 1) = 0 THEN s
            ELSE substr(s, 1, find_first(s, chars, 1) - 1)
        rest    == substr(url, find_first(url, ":", 1) + 3, Len(url))
        netloc  == before_first(rest, "/?#")
        at      == find_last(netloc, "@", Len(netloc))
        hostinf == substr(netloc, at + 1, Len(netloc))
    IN  lower(before_first(hostinf, ":"))

\* [a-zA-Z0-9][a-zA-Z0-9\-]*(?:\.[a-zA-Z0-9][a-zA-Z0-9\-]*)* from j on: where
\* the longest match ends and how many labels it has
RECURSIVE labels_end(_, _, _)
labels_end(s, j, n) ==
    IF ~in_class(char_at(s, j), "alnum") THEN [end |-> j, labels |-> n]
    ELSE LET e == run_end(s, j + 1, "label", Len(s))
         IN  IF char_at(s, e) = "." /\ in_class(char_at(s, e + 1), "alnum")
             THEN labels_end(s, e + 1, n + 1)
             ELSE [end |-> e, labels |-> n + 1]

\* GTM_ID_PATTERN, GA_ID_PATTERN and AW_ID_PATTERN: the prefix in any letter
\* case, then min to max characters of the class
find_ids(s, prefix, cls, min, max) ==
    LET at(k) ==
            LET b == k + Len(prefix)
                e == run_end(s, b, cls, max)
            IN  IF upper(substr(s, k, b - 1)) = prefix /\ e - b >= min
                THEN Match(e, k, e - 1)
                ELSE NoMatch
    IN  finditer(s, [k \in 1..Len(s) |-> at(k)], 1)

(***************************************************************************)
(* Sets and sorting.  A Python set of strings is iterated in an order     *)
(* that depends on the process (string hashing is randomised), so every   *)
(* iteration of a set takes the order of the process as a parameter.      *)
(***************************************************************************)
\* the place of every character of this module's strings in their order by
\* code point: ord(c), up to a shift
CodePoints ==
    LET CodeOrder ==
            " !\"#$%&'()*+,-./0123456789:;<=>?@ABCDEFGHIJKLMNOPQRSTUVWXYZ[\\]^_"
                \o "abcdefghijklmnopqrstuvwxyz{|}~"
    IN  [c \in chars_of(CodeOrder) |->
            CHOOSE k \in 1..Len(CodeOrder) : SubSeq(CodeOrder, k, k) = c]

\* a < b for two str values; white space other than the blank comes first
RECURSIVE str_less(_, _)
str_less(a, b) ==
    LET ord(c) == IF c \in DOMAIN CodePoints THEN CodePoints[c] ELSE 0
    IN  IF b = "" THEN FALSE
        ELSE IF a = "" THEN TRUE
        ELSE IF Head(a) = Head(b) THEN str_less(Tail(a), Tail(b))
        ELSE ord(Head(a)) < ord(Head(b))

Range(seq) == {seq[i] : i \in 1..Len(seq)}

RECURSIVE ascending(_)
ascending(S) ==
    IF S = {} THEN <<>>
    ELSE LET m == CHOOSE x \in S : \A y \in S \ {x} : str_less(x, y)
         IN  <<m>> \o ascending(S \ {m})

\* list(S), [x for x in S]: the elements of S in the order of the process
iterate(S, order) ==
    LET up == ascending(S)
    IN  IF order = "asc" THEN up
        ELSE [i \in 1..Len(up) |-> up[Len(up) + 1 - i]]

sorted_mut(seq) == seq

\* sorted(iterable): every element at the place its rank gives it, equal
\* elements in the order they come in
sorted(seq) ==
    LET before(j, i) ==
            str_less(seq[j], seq[i]) \/ (seq[j] = seq[i] /\ j < i)
        rank(i) == Cardinality({j \in 1..Len(seq) : before(j, i)}) + 1
    IN  [r \in 1..Len(seq) |->
            seq[CHOOSE i \in 1..Len(seq) : rank(i) = r]]

RECURSIVE join(_, _)
join(seq, sep) ==
    IF seq = <<>> THEN ""
    ELSE IF Len(seq) = 1 THEN seq[1]
    ELSE seq[1] \o sep \o join(Tail(seq), sep)

(***************************************************************************)
(* The extraction steps of GTMAnalyzer.                                    *)
(***************************************************************************)
IGNORE_DOMAINS ==
    {"www.googletagmanager.com", "googletagmanager.com", "www.google.com",
     "google.com", "fonts.googleapis.com", "fonts.gstatic.com",
     "www.gstatic.com", "gstatic.com", "maps.googleapis.com",
     "maps.google.com"}

\* the set `domains` of _extract_domains before the ignore list is removed
candidate_domains(js) ==
    LET \* "Method 2": quoted strings that look like domains
        quoted_domains(s) ==
            LET at(k) ==
                    LET d == labels_end(s, k + 1, 0)
                    IN  IF quote(s, k) > 0 /\ d.labels >= 2 /\ quote(s, d.end) > 0
                        THEN Match(d.end + 1, k + 1, d.end - 1)
                        ELSE NoMatch
            IN  finditer(s, [k \in 1..Len(s) |-> at(k)], 1)
        \* "Method 3": protocol-relative URLs
        protocol_relative(s) ==
            LET at(k) ==
                    LET d == labels_end(s, k + 2, 0)
                    IN  IF lit(s, k, "//") > 0 /\ d.labels >= 2
                        THEN Match(d.end, k + 2, d.end - 1)
                        ELSE NoMatch
            IN  finditer(s, [k \in 1..Len(s) |-> at(k)], 1)
        hosts == {hostname(rstrip(u, "'\")}];,")) :
                      u \in Range(url_matches(js))}
        m1    == {strip_chars(h, ".") : h \in hosts \ {""}}
        m2    == {strip_chars(lower(c), ".") :
                      c \in Range(quoted_domains(js))}
        m3    == {strip_chars(lower(c), ".") :
                      c \in Range(protocol_relative(js))}
    IN  {d \in m1 \cup m2 \cup m3 : is_valid_domain(d)}

extract_domains_mut(js, order) ==
    sorted(iterate(candidate_domains(js), order))

\* result["domains"] of _extract_domains
extract_domains(js, order) ==
    sorted(iterate(candidate_domains(js) \ IGNORE_DOMAINS, order))

\* urls, scripts_loaded and pixels of _extract_urls
extract_urls(js, order) ==
    LET urls ==
            {u \in {rstrip(m, "'\")}];,") : m \in Range(url_matches(js))} :
                Len(u) > 15 /\ ~contains(u, "googletagmanager.com/gtm.js")}
        is_script(u) == endswith(u, ".js") \/ endswith(u, ".min.js")
        keywords ==
            {"pixel", "track", "/tr?", "collect?", "beacon", "event?",
             "analytics", "log?", "ping?"}
        is_pixel(u) == \E kw \in keywords : contains(lower(u), kw)
    IN  [urls    |-> sorted(iterate(urls, order)),
         scripts |-> sorted(SelectSeq(iterate(urls, order), is_script)),
         pixels  |-> sorted(SelectSeq(iterate(urls, order), is_pixel))]

extract_all_tracking_ids(text) ==
    LET \* UA_ID_PATTERN: UA-\d{4,12}-\d{1,4}, in any letter case
        find_ua_ids(s) ==
            LET at(k) ==
                    LET e1 == run_end(s, k + 3, "digit", 12)
                        e2 == run_end(s, e1 + 1, "digit", 4)
                    IN  IF /\ upper(substr(s, k, k + 2)) = "UA-"
                           /\ e1 - (k + 3) >= 4
                           /\ char_at(s, e1) = "-"
                           /\ e2 - (e1 + 1) >= 1
                        THEN Match(e2, k, e2 - 1)
                        ELSE NoMatch
            IN  finditer(s, [k \in 1..Len(s) |-> at(k)], 1)
    IN
    [GTM |-> {upper(m) :
                 m \in Range(find_ids(text, "GTM-", "alnum", 4, 12))},
     GA4 |-> {upper(m) : m \in Range(find_ids(text, "G-", "alnum", 6, 12))},
     UA  |-> {upper(m) : m \in Range(find_ua_ids(text))},
     AW  |-> {upper(m) : m \in Range(find_ids(text, "AW-", "digit", 6, 12))}]

discard_mut(S, x) == S

\* set.discard
discard(S, x) == S \ {x}

\* result["tracking_ids"] of _extract_tracking_ids: the kinds with an
\* identifier, each with its sorted list
extract_tracking_ids(js, gtm_id, order) ==
    LET found == extract_all_tracking_ids(js)
        ids   == [found EXCEPT !.GTM = discard(@, gtm_id)]
    IN  [k \in {k \in DOMAIN ids : ids[k] # {}} |->
            sorted(iterate(ids[k], order))]

SERVICE_SIGNATURES ==
    <<
      [service |-> "google-analytics",
       signatures |-> {"google-analytics.com",
                       "analytics.google.com",
                       "www.googletagmanager.com"}],
      [service |-> "google-ads",
       signatures |-> {"googleads.g.doubleclick.net",
                       "googleadservices.com",
                       "googlesyndication.com"}],
      [service |-> "facebook-pixel",
       signatures |-> {"connect.facebook.net",
                       "facebook.com/tr",
                       "www.facebook.com"}],
      [service |-> "hotjar",
       signatures |-> {"static.hotjar.com", "hotjar.com", "vars.hotjar.com"}],
      [service |-> "linkedin-insight",
       signatures |-> {"snap.licdn.com", "linkedin.com"}],
      [service |-> "tiktok-pixel",
       signatures |-> {"analytics.tiktok.com", "tiktok.com"}],
      [service |-> "pinterest-tag",
       signatures |-> {"s.pinimg.com", "ct.pinterest.com"}],
      [service |-> "bing-ads",
       signatures |-> {"bat.bing.com", "bing.com"}],
      [service |-> "twitter-pixel",
       signatures |-> {"static.ads-twitter.com",
                       "analytics.twitter.com",
                       "t.co"}],
      [service |-> "clarity",
       signatures |-> {"clarity.ms", "www.clarity.ms"}],
      [service |-> "hubspot",
       signatures |-> {"js.hs-scripts.com",
                       "js.hs-analytics.net",
                       "hubspot.com"}],
      [service |-> "segment",
       signatures |-> {"cdn.segment.com", "api.segment.io"}],
      [service |-> "amplitude",
       signatures |-> {"cdn.amplitude.com", "api.amplitude.com"}],
      [service |-> "mixpanel",
       signatures |-> {"cdn.mxpnl.com", "api.mixpanel.com"}],
      [service |-> "heap",
       signatures |-> {"cdn.heapanalytics.com", "heapanalytics.com"}],
      [service |-> "fullstory",
       signatures |-> {"fullstory.com", "rs.fullstory.com"}],
      [service |-> "crazyegg",
       signatures |-> {"script.crazyegg.com", "crazyegg.com"}],
      [service |-> "optimizely",
       signatures |-> {"cdn.optimizely.com", "logx.optimizely.com"}],
      [service |-> "pardot",
       signatures |-> {"pi.pardot.com", "pardot.com"}],
      [service |-> "marketo",
       signatures |-> {"munchkin.marketo.net", "marketo.com"}],
      [service |-> "intercom",
       signatures |-> {"widget.intercom.io", "intercom.io"}],
      [service |-> "drift",
       signatures |-> {"js.driftt.com", "drift.com"}],
      [service |-> "crisp",
       signatures |-> {"client.crisp.chat", "crisp.chat"}],
      [service |-> "zendesk",
       signatures |-> {"static.zdassets.com", "zendesk.com"}],
      [service |-> "freshchat",
       signatures |-> {"wchat.freshchat.com", "freshchat.com"}],
      [service |-> "mouseflow",
       signatures |-> {"cdn.mouseflow.com", "mouseflow.com"}],
      [service |-> "lucky-orange",
       signatures |-> {"d10lpsik1i8c69.cloudfront.net", "luckyorange.com"}],
      [service |-> "matomo",
       signatures |-> {"matomo.cloud", "cdn.matomo.cloud"}],
      [service |-> "plausible",
       signatures |-> {"plausible.io"}],
      [service |-> "cloudflare",
       signatures |-> {"cdnjs.cloudflare.com", "cloudflare.com"}],
      [service |-> "recaptcha",
       signatures |-> {"www.google.com/recaptcha",
                       "www.gstatic.com/recaptcha"}],
      [service |-> "stripe",
       signatures |-> {"js.stripe.com", "m.stripe.network"}],
      [service |-> "paypal",
       signatures |-> {"www.paypal.com", "www.paypalobjects.com"}]
    >>

\* result["services_detected"] of _detect_services, from the lists the
\* result holds
detect_services(domains, urls, order) ==
    LET combined == join(iterate(Range(domains), order), " ") \o " "
                        \o join(iterate(Range(urls), order), " ")
        detected == {SERVICE_SIGNATURES[i].service :
                        i \in {j \in DOMAIN SERVICE_SIGNATURES :
                            \E sig \in SERVICE_SIGNATURES[j].signatures :
                                contains(combined, sig)}}
    IN  sorted(iterate(detected, order))

RECURSIVE replace(_, _, _)
replace(s, old, new) ==
    IF find_sub(s, old, 1) = 0 THEN s
    ELSE substr(s, 1, find_sub(s, old, 1) - 1) \o new
            \o replace(substr(s, find_sub(s, old, 1) + Len(old), Len(s)),
                       old, new)

\* seq[:n]
take(seq, n) == SubSeq(seq, 1, IF Len(seq) < n THEN Len(seq) ELSE n)

\* "name" \s*:\s* "(class+)"
quoted_values(s, name, cls) ==
    LET at(k) ==
            LET g == lit(s, colon(s, lit(s, k, "\"" \o name \o "\"")), "\"")
                e == run1(s, g, cls)
            IN  IF lit(s, e, "\"") > 0 THEN Match(e + 1, g, e - 1) ELSE NoMatch
    IN  finditer(s, [k \in 1..Len(s) |-> at(k)], 1)

\* result["data_layer_vars"] of _extract_datalayer_vars
extract_datalayer_vars(js, order) ==
    LET \* _extract_datalayer_vars, first pattern: dataLayer[.\[]["']([\w.]+)
        datalayer_refs(s) ==
            LET at(k) ==
                    LET a == lit(s, k, "dataLayer")
                        g == quote(s, IF a > 0 /\ char_at(s, a) \in {".", "["}
                                      THEN a + 1 ELSE 0)
                        e == run1(s, g, "word_dot")
                    IN  IF e > 0 THEN Match(e, g, e - 1) ELSE NoMatch
            IN  finditer(s, [k \in 1..Len(s) |-> at(k)], 1)
        macros  == {v \in Range(quoted_values(js, "key", "word_dot")) :
                       ~startswith(v, "gtm.") /\ Len(v) > 2}
        dl_vars == Range(datalayer_refs(js)) \cup macros
    IN  sorted(iterate(dl_vars, order))

\* result["container_version"] of _extract_container_version
extract_container_version(js) ==
    IF quoted_values(js, "version", "digit") = <<>> THEN ""
    ELSE quoted_values(js, "version", "digit")[1]

\* result["custom_html_tags"] of _extract_custom_html
extract_custom_html(js) ==
    LET \* (?:customHtml|html)["']\s*:\s*["'](.+?)["']
        html_values(s) ==
            LET at(k) ==
                    LET a == IF lit(s, k, "customHtml") > 0 THEN lit(s, k, "customHtml")
                             ELSE lit(s, k, "html")
                        g == quote(s, colon(s, quote(s, a)))
                        q == IF g = 0 THEN 0 ELSE find_first(s, "\"'", g + 1)
                    IN  IF q > 0 THEN Match(q + 1, g, q - 1) ELSE NoMatch
            IN  finditer(s, [k \in 1..Len(s) |-> at(k)], 1)
        \* open [^>]* close (.+?) last, for the escaped and the plain script tags:
        \* [^>]* gives back as little as lets the rest match
        script_bodies(s, open, close, last) ==
            LET at(k) ==
                    LET a == lit(s, k, open)
                        r == IF find_sub(s, ">", a) = 0 THEN Len(s)
                             ELSE find_sub(s, ">", a)
                        C == {c \in a..r : /\ lit(s, c, close) > 0
                                           /\ find_sub(s, last, c + Len(close) + 1) > 0}
                        g == greatest(C) + Len(close)
                        l == find_sub(s, last, g + 1)
                    IN  IF a > 0 /\ C # {} THEN Match(l + Len(last), g, l - 1)
                        ELSE NoMatch
            IN  finditer(s, [k \in 1..Len(s) |-> at(k)], 1)
        found == html_values(js)
                   \o script_bodies(js, "\\x3cscript", "\\x3e",
                                    "\\x3c/script\\x3e")
                   \o script_bodies(js, "<script", ">", "</script>")
        \* the replacements applied to a tag, in their order
        unescape(content) ==
            replace(replace(replace(replace(replace(replace(replace(replace(
                content, "\\x3c", "<"), "\\x3e", ">"), "\\x26", "&"),
                "\\x22", "\""), "\\x27", "'"), "\\n", "\n"), "\\t", "\t"),
                "\\/", "/")
        tags  == [i \in 1..Len(found) |-> unescape(found[i])]
        long(t) == Len(t) > 10
    IN  take([i \in 1..Len(SelectSeq(tags, long)) |->
                 take(SelectSeq(tags, long)[i], 500)], 20)

\* result["interesting_strings"] of _extract_interesting_strings
extract_interesting_strings(js, order) ==
    LET \* https?://[^\s"'<>]+/api/[^\s"'<>]+
        api_endpoints(s) ==
            LET at(k) ==
                    LET b == scheme_end(s, k, FALSE)
                        e == run_end(s, b, "text", Len(s))
                    IN  IF b > 0 /\ \E p \in (b + 1)..(e - 6) : lit(s, p, "/api/") > 0
                        THEN Match(e, k, e - 1)
                        ELSE NoMatch
            IN  finditer(s, [k \in 1..Len(s) |-> at(k)], 1)
        \* https?://[^\s"'<>]*webhook[^\s"'<>]*, ignoring case
        webhooks(s) ==
            LET at(k) ==
                    LET b == scheme_end(s, k, TRUE)
                        e == run_end(s, b, "text", Len(s))
                    IN  IF b > 0 /\ contains(lower(substr(s, b, e - 1)), "webhook")
                        THEN Match(e, k, e - 1)
                        ELSE NoMatch
            IN  finditer(s, [k \in 1..Len(s) |-> at(k)], 1)
        \* [\w.+-]+@[\w-]+\.[\w.-]+
        emails(s) ==
            LET at(k) ==
                    LET e == run1(s, lit(s, run1(s, lit(s, run1(s, k, "mail"), "@"),
                                                 "word_dash"), "."), "word_dot_dash")
                    IN  IF e > 0 THEN Match(e, k, e - 1) ELSE NoMatch
            IN  IF ~contains(s, "@") THEN <<>>
                ELSE finditer(s, [k \in 1..Len(s) |-> at(k)], 1)
        \* ["']([a-zA-Z0-9]{32,})["']
        long_tokens(s) ==
            LET at(k) ==
                    LET g == quote(s, k)
                        e == run1(s, g, "alnum")
                    IN  IF e - g >= 32 /\ quote(s, e) > 0
                        THEN Match(e + 1, g, e - 1)
                        ELSE NoMatch
            IN  finditer(s, [k \in 1..Len(s) |-> at(k)], 1)
        \* not val.isdigit() and not val.islower(), for a value of letters
        \* and digits
        key_like(val) ==
            \E i \in 1..Len(val) : in_class(char_at(val, i), "upper")
        interesting ==
            {"API: " \o take(m, 200) : m \in Range(api_endpoints(js))}
            \cup {"Webhook: " \o take(m, 200) : m \in Range(webhooks(js))}
            \cup {"Email: " \o m : m \in Range(emails(js))}
            \cup {"Key?: " \o take(m, 60) :
                     m \in {v \in Range(long_tokens(js)) : key_like(v)}}
    IN  take(sorted(iterate(interesting, order)), 30)

(***************************************************************************)
(* json.loads, as far as _extract_container_data needs it: whether a text *)
(* is a JSON document.                                                    *)
(***************************************************************************)
\* the index after the piece of a JSON text that stands at i, 0 when no
\* such piece stands there (or i is 0): a value; the members of an object
\* and its brace; the elements of an array and its bracket; the rest of a
\* string and its quote; a number, its integer part, its fraction and its
\* exponent, after which the number ends
RECURSIVE json_end(_, _, _)
json_end(s, i, piece) ==
    LET c == char_at(s, i)
    IN  CASE i = 0 -> 0
          [] i > 0 /\ piece = "value" ->
                IF c = "{"
                THEN IF char_at(s, ws0(s, i + 1)) = "}" THEN ws0(s, i + 1) + 1
                     ELSE json_end(s, ws0(s, i + 1), "members")
                ELSE IF c = "["
                THEN IF char_at(s, ws0(s, i + 1)) = "]" THEN ws0(s, i + 1) + 1
                     ELSE json_end(s, ws0(s, i + 1), "elements")
                ELSE IF c = "\"" THEN json_end(s, i + 1, "chars")
                ELSE IF \E t \in {"true", "false", "null", "NaN", "Infinity",
                                  "-Infinity"} : lit(s, i, t) > 0
                THEN lit(s, i, CHOOSE t \in {"true", "false", "null", "NaN",
                                             "Infinity", "-Infinity"} :
                                   lit(s, i, t) > 0)
                ELSE json_end(s, IF c = "-" THEN i + 1 ELSE i, "integer")
          [] i > 0 /\ piece = "members" ->
                IF c # "\"" THEN 0
                ELSE json_end(s, ws0(s, json_end(s,
                         colon(s, json_end(s, i + 1, "chars")), "value")),
                         "more_members")
          [] i > 0 /\ piece = "more_members" ->
                IF c = "}" THEN i + 1
                ELSE IF c = "," THEN json_end(s, ws0(s, i + 1), "members")
                ELSE 0
          [] i > 0 /\ piece = "elements" ->
                json_end(s, ws0(s, json_end(s, i, "value")), "more_elements")
          [] i > 0 /\ piece = "more_elements" ->
                IF c = "]" THEN i + 1
                ELSE IF c = "," THEN json_end(s, ws0(s, i + 1), "elements")
                ELSE 0
          [] i > 0 /\ piece = "chars" ->
                IF c = "" \/ has_char("\t\n\r", c) THEN 0
                ELSE IF c = "\"" THEN i + 1
                ELSE IF c # "\\" THEN json_end(s, i + 1, "chars")
                ELSE IF has_char("\"\\/bfnrt", char_at(s, i + 1))
                THEN json_end(s, i + 2, "chars")
                ELSE IF /\ char_at(s, i + 1) = "u"
                        /\ \A k \in (i + 2)..(i + 5) :
                              in_class(char_at(s, k), "hex")
                THEN json_end(s, i + 6, "chars")
                ELSE 0
          [] i > 0 /\ piece = "integer" ->
                IF c = "0" THEN json_end(s, i + 1, "fraction")
                ELSE json_end(s, run1(s, i, "digit"), "fraction")
          [] i > 0 /\ piece = "fraction" ->
                IF c = "." /\ in_class(char_at(s, i + 1), "digit")
                THEN json_end(s, run1(s, i + 1, "digit"), "exponent")
                ELSE json_end(s, i, "exponent")
          [] i > 0 /\ piece = "exponent" ->
                IF ~has_char("eE", c) THEN i
                ELSE IF has_char("+-", char_at(s, i + 1))
                        /\ in_class(char_at(s, i + 2), "digit")
                THEN run1(s, i + 2, "digit")
                ELSE IF in_class(char_at(s, i + 1), "digit")
                THEN run1(s, i + 1, "digit")
                ELSE i

\* json.loads(s) returns rather than raising JSONDecodeError
json_loads_ok(s) == ws0(s, json_end(s, ws0(s, 1), "value")) = Len(s) + 1

\* what _extract_container_data adds to the result: the container's data, by
\* its JSON text, or the mark of a resource block
extract_container_data(js) ==
    LET s == js
        \* pattern.search(s).group(1), "" when the pattern does not match
        first_group(groups) == IF groups = <<>> THEN "" ELSE groups[1]
        \* \{.+?\} with the brace at b - 1 and the closing brace at e
        object_match(b, e) ==
            IF b > 0 /\ e > 0 THEN Match(e + 1, b - 1, e) ELSE NoMatch
        \* where the object of pattern 2 closes: the first brace at or after
        \* i that white space and a parenthesis follow, 0 if there is none
        closing_brace(i) ==
            LET P == {k \in i..Len(s) :
                         lit(s, ws0(s, lit(s, k, "}")), ")") > 0}
            IN  IF P = {} THEN 0 ELSE least(P)
        \* pattern 1: var\s+data\s*=\s*(\{.+?\});
        var_data_at(k) ==
            LET v == lit(s, k, "var")
                \* \s+ after var
                w == IF ws0(s, v) > v THEN ws0(s, v) ELSE 0
                b == lit(s, ws0(s, lit(s, ws0(s, lit(s, w, "data")), "=")), "{")
            IN  object_match(b, find_sub(s, "};", b + 1))
        \* pattern 2: \}\)\(document,\s*(\{.+?\})\s*\)
        document_data_at(k) ==
            LET b == lit(s, ws0(s, lit(s, k, "})(document,")), "{")
            IN  object_match(b, IF b = 0 THEN 0 ELSE closing_brace(b + 1))
        var_data ==
            first_group(finditer(s, [k \in 1..Len(s) |-> var_data_at(k)], 1))
        document_data ==
            first_group(finditer(s, [k \in 1..Len(s) |->
                                        document_data_at(k)], 1))
        \* pattern 3: "resource" \s*:\s* { [^}]+ }
        has_resource_block ==
            \E k \in 1..Len(s) :
                LET b == lit(s, colon(s, lit(s, k, "\"resource\"")), "{")
                IN  b > 0 /\ find_sub(s, "}", b) > b
    IN  IF var_data # "" /\ json_loads_ok(var_data)
        THEN [kind |-> "data", text |-> var_data]
        ELSE IF document_data # "" /\ json_loads_ok(document_data)
        THEN [kind |-> "data", text |-> document_data]
        ELSE IF has_resource_block
        THEN [kind |-> "resource_block", text |-> ""]
        ELSE [kind |-> "none", text |-> ""]

(***************************************************************************)
(* analyze_gtm_async (GTMAnalyzer.analyze has the same steps): the fetch  *)
(* of the container and the extraction steps over its text.               *)
(***************************************************************************)
MaxChunks == 2

MaxAnalyses == 2

\* str(n) for a natural number
RECURSIVE str_int(_)
str_int(n) ==
    IF n < 10 THEN SubSeq("0123456789", n + 1, n + 1)
    ELSE str_int(n \div 10) \o str_int(n % 10)

\* the texts the container URL may serve: up to MaxChunks pieces
Contents ==
    LET \* pieces of container text
        Chunks ==
            {"//googletagmanager.com/gtm.js?id=GTM-ABC123",
             "connect.facebook.net/tr",
             "https://connect.facebook.net/tr",
             "\"tracking.example.com\"",
             "\"application.com\"",
             "\"user.id\"",
             "\"module.name\"",
             "gtm-abc123",
             "Gtm-Xyz789"}
    IN
    {join(l, " ") : l \in UNION {[1..n -> Chunks] : n \in 0..MaxChunks}}

\* the dictionary analyze_gtm_async starts from
new_result(gtm_id) ==
    [gtm_id              |-> gtm_id,
     status              |-> "unknown",
     raw_size            |-> 0,
     domains             |-> <<>>,
     urls                |-> <<>>,
     tracking_ids        |-> <<>>,
     services_detected   |-> <<>>,
     custom_html_tags    |-> <<>>,
     scripts_loaded      |-> <<>>,
     pixels              |-> <<>>,
     data_layer_vars     |-> <<>>,
     container_version   |-> "",
     interesting_strings |-> <<>>,
     domains_under_gtm   |-> <<>>,
     container           |-> [kind |-> "none", text |-> ""]]

status_of_mut(code) == "error_" \o str_int(code)

\* the status of a result whose fetch was answered with another code than 200
status_of(code) ==
    IF code = 404 THEN "not_found" ELSE "error_" \o str_int(code)

fetched_mut(result, outcome) == [result |-> result, pc |-> "text"]

\* the result once session.get has returned or raised, and whether the
\* coroutine goes on to read the text
fetched(result, outcome) ==
    CASE outcome.kind = "timeout" ->
            [result |-> [result EXCEPT !.status = "timeout"], pc |-> "done"]
      [] outcome.kind = "error" ->
            [result |-> [result EXCEPT !.status = "error: connection"],
             pc |-> "done"]
      [] outcome.kind = "response" /\ outcome.status # 200 ->
            [result |-> [result EXCEPT !.status = status_of(outcome.status)],
             pc |-> "done"]
      [] OTHER -> [result |-> result, pc |-> "text"]

\* the nine extraction steps, in the order of the source
extracted(result, js, order) ==
    LET domains == extract_domains(js, order)
        found   == extract_urls(js, order)
    IN  [result EXCEPT
            !.raw_size            = Len(js),
            !.status              = "active",
            !.container           = extract_container_data(js),
            !.domains             = domains,
            !.domains_under_gtm   = domains,
            !.urls                = found.urls,
            !.scripts_loaded      = found.scripts,
            !.pixels              = found.pixels,
            !.tracking_ids        = extract_tracking_ids(js, result.gtm_id,
                                                         order),
            !.services_detected   = detect_services(domains, found.urls, order),
            !.custom_html_tags    = extract_custom_html(js),
            !.data_layer_vars     = extract_datalayer_vars(js, order),
            !.interesting_strings = extract_interesting_strings(js, order),
            !.container_version   = extract_container_version(js)]

\* analyze_gtm_async is called
AnalyzeStart ==
    /\ aPc = "idle"
    /\ aCount < MaxAnalyses
    /\ aCount' = aCount + 1
    /\ aFirst' = [result |-> aResult, order |-> aOrder]
    /\ aOrder' = "none"
    /\ aResp' = [kind |-> "none", status |-> 0]
    /\ aResult' = new_result(aId)
    /\ aPc' = "get"
    /\ UNCHANGED <<aId, aContent>>
    /\ UNCHANGED <<schedVars, fofaVars, lookupVars, batch>>

\* session.get returns a response with a status, or raises
AnalyzeGet ==
    /\ aPc = "get"
    /\ \E outcome \in [kind : {"response"}, status : {200, 404, 500}]
                        \cup [kind : {"timeout", "error"}, status : {0}] :
          /\ aResp' = outcome
          /\ aResult' = fetched(aResult, outcome).result
          /\ aPc' = IF fetched(aResult, outcome).pc = "done" THEN "idle"
                    ELSE "text"
    /\ UNCHANGED <<aId, aContent, aCount, aOrder, aFirst>>
    /\ UNCHANGED <<schedVars, fofaVars, lookupVars, batch>>

\* resp.text() returns and the extraction steps run, in a process with some
\* order of its sets
AnalyzeExtract ==
    /\ aPc = "text"
    /\ \E order \in {"asc", "desc"} :
          /\ aOrder' = order
          /\ aResult' = extracted(aResult, aContent, order)
    /\ aPc' = "idle"
    /\ UNCHANGED <<aId, aContent, aCount, aResp, aFirst>>
    /\ UNCHANGED <<schedVars, fofaVars, lookupVars, batch>>

\* resp.text() raises
AnalyzeTextRaise ==
    /\ aPc = "text"
    /\ aResult' = [aResult EXCEPT !.status = "error: decode"]
    /\ aPc' = "idle"
    /\ UNCHANGED <<aId, aContent, aCount, aResp, aOrder, aFirst>>
    /\ UNCHANGED <<schedVars, fofaVars, lookupVars, batch>>

InitAnalyze ==
    /\ SchedIdle
    /\ FofaIdle
    /\ LookupIdleWith({FALSE})
    /\ aPc = "idle"
    /\ aId \in {"GTM-ABC123"}
    /\ aContent \in Contents
    /\ aCount = 0
    /\ aResp = [kind |-> "none", status |-> 0]
    /\ aOrder = "none"
    /\ aResult = [status |-> "none"]
    /\ aFirst = [result |-> [status |-> "none"], order |-> "none"]
    /\ batch = [pc |-> "idle", ids |-> <<>>, texts |-> <<>>, order |-> "asc",
                tasks |-> <<>>, results |-> <<>>]

SpecAnalyze ==
    InitAnalyze
        /\ [][AnalyzeStart \/ AnalyzeGet \/ AnalyzeExtract \/ AnalyzeTextRaise]_vars

\* the analysis of a container whose text is one quoted string where a
\* domain is looked for: a first segment and the segments after it
InitDomains ==
    /\ SchedIdle
    /\ FofaIdle
    /\ LookupIdleWith({FALSE})
    /\ aPc = "idle"
    /\ aId \in {"GTM-ABC123"}
    /\ aContent \in
          {"\"" \o first \o "." \o rest \o "\"" :
              first \in {"shop", "user", "www", "12"},
              rest \in {"co.uk", "com.br", "co.id", "co.xx", "example.com",
                        "example.co.uk", "com", "io", "id", "34"}}
    /\ aCount = 0
    /\ aResp = [kind |-> "none", status |-> 0]
    /\ aOrder = "none"
    /\ aResult = [status |-> "none"]
    /\ aFirst = [result |-> [status |-> "none"], order |-> "none"]
    /\ batch = [pc |-> "idle", ids |-> <<>>, texts |-> <<>>, order |-> "asc",
                tasks |-> <<>>, results |-> <<>>]

SpecDomains ==
    InitDomains
        /\ [][AnalyzeStart \/ AnalyzeGet \/ AnalyzeExtract \/ AnalyzeTextRaise]_vars

(***************************************************************************)
(* analyze_all_gtm_async: one analyze_gtm_async task per identifier on one *)
(* event loop, awaited in the order of completion.                         *)
(***************************************************************************)
\* identifiers one call may be given
MaxBatch == 2

\* the call is entered with a sorted list of distinct identifiers (every
\* call site passes sorted(<set>)), each container serving some text; the
\* tasks are created
BatchStart ==
    /\ batch.pc = "idle"
    /\ batch' = [batch EXCEPT
                   !.pc = IF batch.ids = <<>> THEN "returned" ELSE "gather",
                   !.tasks = [i \in DOMAIN batch.ids |->
                                 [pc |-> "get",
                                  resp |-> [kind |-> "none", status |-> 0],
                                  result |-> new_result(batch.ids[i])]]]
    /\ UNCHANGED <<aPc, aId, aContent, aCount, aResp, aOrder, aResult, aFirst>>
    /\ UNCHANGED <<schedVars, fofaVars, lookupVars>>

\* session.get of task i returns a response with a status, or raises
TaskGet(i) ==
    /\ batch.pc = "gather"
    /\ batch.tasks[i].pc = "get"
    /\ \E outcome \in [kind : {"response"}, status : {200, 404, 500}]
                        \cup [kind : {"timeout", "error"}, status : {0}] :
          batch' = [batch EXCEPT
                      !.tasks[i].resp = outcome,
                      !.tasks[i].result = fetched(@, outcome).result,
                      !.tasks[i].pc = fetched(batch.tasks[i].result, outcome).pc]
    /\ UNCHANGED <<aPc, aId, aContent, aCount, aResp, aOrder, aResult, aFirst>>
    /\ UNCHANGED <<schedVars, fofaVars, lookupVars>>

\* resp.text() of task i returns and the extraction steps run, or it raises
TaskText(i) ==
    /\ batch.pc = "gather"
    /\ batch.tasks[i].pc = "text"
    /\ \/ batch' = [batch EXCEPT
                      !.tasks[i].result =
                          extracted(@, batch.texts[i], batch.order),
                      !.tasks[i].pc = "done"]
       \/ batch' = [batch EXCEPT
                      !.tasks[i].result.status = "error: decode",
                      !.tasks[i].pc = "done"]
    /\ UNCHANGED <<aPc, aId, aContent, aCount, aResp, aOrder, aResult, aFirst>>
    /\ UNCHANGED <<schedVars, fofaVars, lookupVars>>

\* "for coro in asyncio.as_completed(tasks)": the result of a completed
\* task is awaited and appended; after the last one the list is returned
TaskAwait(i) ==
    /\ batch.pc = "gather"
    /\ batch.tasks[i].pc = "done"
    /\ batch' = [batch EXCEPT
                   !.tasks[i].pc = "awaited",
                   !.results = Append(@, batch.tasks[i].result),
                   !.pc = IF \A k \in DOMAIN batch.tasks \ {i} :
                                batch.tasks[k].pc = "awaited"
                          THEN "returned" ELSE "gather"]
    /\ UNCHANGED <<aPc, aId, aContent, aCount, aResp, aOrder, aResult, aFirst>>
    /\ UNCHANGED <<schedVars, fofaVars, lookupVars>>

InitBatch ==
    /\ SchedIdle
    /\ FofaIdle
    /\ LookupIdleWith({FALSE})
    /\ aPc = "idle"
    /\ aId = ""
    /\ aContent = ""
    /\ aCount = 0
    /\ aResp = [kind |-> "none", status |-> 0]
    /\ aOrder = "none"
    /\ aResult = [status |-> "none"]
    /\ aFirst = [result |-> [status |-> "none"], order |-> "none"]
    /\ \E n \in 0..MaxBatch :
          batch \in [pc : {"idle"},
                     ids : {SubSeq(<<"GTM-ABC123", "GTM-DEF456", "GTM-XYZ789">>,
                                   1, n)},
                     texts : [1..n -> {"\"tracking.example.com\" GTM-ABC123",
                                       "https://connect.facebook.net/tr"}],
                     order : {"asc", "desc"},
                     tasks : {<<>>},
                     results : {<<>>}]

SpecBatch ==
    InitBatch
        /\ [][\/ BatchStart
              \/ \E i \in 1..MaxBatch :
                    i \in DOMAIN batch.tasks
                        /\ (TaskGet(i) \/ TaskText(i) \/ TaskAwait(i))]_vars

(***************************************************************************)
(* The analyser's claims.                                                  *)
(***************************************************************************)

\* C13: whatever the content, and in whatever letter case it names the
\* container, the container's own canonical identifier is not in the GTM list
\* of its own tracking_ids.
C13_OwnIdExcluded ==
    (aPc = "idle" /\ aResult.status = "active"
        /\ "GTM" \in DOMAIN aResult.tracking_ids) =>
        aId \notin Range(aResult.tracking_ids["GTM"])

\* the content names the container in lower case and another container, and
\* only the other one is listed
C13_Witness ==
    /\ (aPc = "idle" /\ aResult.status = "active")
    /\ contains(aContent, "gtm-abc123")
    /\ aId = "GTM-ABC123"
    /\ "GTM" \in DOMAIN aResult.tracking_ids
    /\ aResult.tracking_ids["GTM"] = <<"GTM-XYZ789">>

\* C14: after a fetch answered with a status other than 200 the result has
\* status not_found (404) or error_<code>, raw size 0 and every collection
\* empty, as no extraction step has run; after a fetch that timed out the
\* status is timeout.
C14_FailedFetch ==
    aPc = "idle" /\ aCount > 0 =>
        /\ aResp.status = 404 =>
              aResult = [new_result(aId) EXCEPT !.status = "not_found"]
        /\ aResp.status = 500 =>
              aResult = [new_result(aId) EXCEPT !.status = "error_500"]
        /\ aResp.kind = "timeout" => aResult.status = "timeout"

\* a 404 has been answered after an analysis that had extracted something
C14_Witness ==
    /\ aPc = "idle"
    /\ aResp = [kind |-> "response", status |-> 404]
    /\ aResult.status = "not_found"
    /\ aResult.raw_size = 0
    /\ aResult.domains = <<>>
    /\ aFirst.result.status = "active"
    /\ aFirst.result.domains # <<>>

\* C18: of the candidates the extraction hands to _is_valid_domain,
\* tracking.example.com and application.com are accepted, user.id and
\* module.name are rejected.
C18_ValidDomainExamples ==
    (aPc = "idle" /\ aResult.status = "active") =>
        /\ \A d \in {"tracking.example.com", "application.com"} :
              contains(aContent, "\"" \o d \o "\"") => d \in Range(aResult.domains)
        /\ \A d \in {"user.id", "module.name"} :
              d \notin Range(aResult.domains)

\* an accepted and a rejected candidate in one content
C18_Witness ==
    /\ (aPc = "idle" /\ aResult.status = "active")
    /\ contains(aContent, "\"" \o "application.com" \o "\"")
    /\ contains(aContent, "\"" \o "user.id" \o "\"")
    /\ aResult.domains = <<"application.com">>

\* C19 as stated: for content that contains
\* googletagmanager.com/gtm.js?id=GTM-ABC123 and connect.facebook.net/tr the
\* domains contain connect.facebook.net and not googletagmanager.com and the
\* services include facebook-pixel; and no result's domains hold a member of
\* the ignore list.
C19_ScenarioAnyText ==
    (aPc = "idle" /\ aResult.status = "active") =>
        /\ /\ contains(aContent, "googletagmanager.com/gtm.js?id=GTM-ABC123")
           /\ contains(aContent, "connect.facebook.net/tr")
           => (/\ "connect.facebook.net" \in Range(aResult.domains)
               /\ "googletagmanager.com" \notin Range(aResult.domains)
               /\ "facebook-pixel" \in Range(aResult.services_detected))
        /\ Range(aResult.domains) \cap IGNORE_DOMAINS = {}

\* C19, amended: the same when connect.facebook.net/tr stands after two
\* slashes, as it does in a URL with or without scheme.
C19_ScenarioInUrl ==
    (aPc = "idle" /\ aResult.status = "active") =>
        /\ /\ contains(aContent, "googletagmanager.com/gtm.js?id=GTM-ABC123")
           /\ contains(aContent, "//connect.facebook.net/tr")
           => (/\ "connect.facebook.net" \in Range(aResult.domains)
               /\ "googletagmanager.com" \notin Range(aResult.domains)
               /\ "facebook-pixel" \in Range(aResult.services_detected))
        /\ Range(aResult.domains) \cap IGNORE_DOMAINS = {}

\* both texts in URLs: the ignore list has removed the one, the other stays
C19_Witness ==
    /\ (aPc = "idle" /\ aResult.status = "active")
    /\ contains(aContent, "//googletagmanager.com/gtm.js?id=GTM-ABC123")
    /\ contains(aContent, "//connect.facebook.net/tr")
    /\ "googletagmanager.com" \in candidate_domains(aContent)
    /\ aResult.domains = <<"connect.facebook.net">>
    /\ aResult.services_detected = <<"facebook-pixel">>

\* C20: two analyses of the same identifier that both extracted from the
\* same content give the same result, every list in the same order, whatever
\* the set orders of the two processes.
C20_ExtractionRepeatable ==
    (aPc = "idle" /\ aResult.status = "active"
        /\ aFirst.result.status = "active") => aFirst.result = aResult

\* two extractions in processes with different set orders, over a content
\* with more than one domain
C20_Witness ==
    /\ (aPc = "idle" /\ aResult.status = "active")
    /\ aFirst.result.status = "active"
    /\ aFirst.order # aOrder
    /\ Len(aResult.domains) >= 2
    /\ aFirst.result = aResult

\* C23: analyze_all_gtm_async returns exactly one record per identifier of
\* its argument, for every mix and every completion order of the fetch
\* outcomes: the record of an identifier is the one its own fetch and its
\* own text determine, whatever happened to the other tasks; no task ends
\* in another way than with its record, and a call that has not returned
\* has a task that is still to run or to be awaited.
C23_OneRecordEach ==
    /\ (batch.pc = "returned" =>
            /\ Len(batch.results) = Len(batch.ids)
            /\ \A i \in DOMAIN batch.ids :
                  LET own == {k \in DOMAIN batch.results :
                                 batch.results[k].gtm_id = batch.ids[i]}
                      resp == batch.tasks[i].resp
                      start == new_result(batch.ids[i])
                  IN  /\ Cardinality(own) = 1
                      /\ \A k \in own :
                            batch.results[k] \in
                               CASE resp.kind = "timeout" ->
                                      {[start EXCEPT !.status = "timeout"]}
                                 [] resp.kind = "error" ->
                                      {[start EXCEPT
                                          !.status = "error: connection"]}
                                 [] resp.status = 404 ->
                                      {[start EXCEPT !.status = "not_found"]}
                                 [] resp.status = 500 ->
                                      {[start EXCEPT !.status = "error_500"]}
                                 [] OTHER ->
                                      {[start EXCEPT
                                          !.status = "error: decode"],
                                       extracted(start, batch.texts[i],
                                                 batch.order)})
    /\ batch.pc \in {"idle", "gather", "returned"}
    /\ batch.pc = "gather" =>
          /\ \A i \in DOMAIN batch.tasks :
                batch.tasks[i].pc \in {"get", "text", "done", "awaited"}
          /\ \E i \in DOMAIN batch.tasks : batch.tasks[i].pc # "awaited"

\* C23 witness: a call has returned the record of a failed fetch before
\* the record of a container whose text was extracted, the failed one
\* having completed first although it stands second in the argument.
C23_Witness ==
    /\ batch.pc = "returned"
    /\ Len(batch.results) = 2
    /\ batch.results[1].gtm_id = batch.ids[2]
    /\ batch.results[1].status = "timeout"
    /\ batch.results[2].status = "active"
    /\ batch.results[2].domains # <<>>

(***************************************************************************)
(* The scheduler's claims.                                                 *)
(***************************************************************************)

\* C1: for any interleaving of start requests on one session directory, at
\* most one scheduler daemon is alive at a time.
C1_AtMostOneDaemon == Cardinality({p \in Starts : pc[p] \in DaemonPcs}) <= 1

\* C2: with no --clear-history, the seen-post set and the seen-container
\* set a cycle saves are supersets of the sets persisted before the save.
C2_SavedSetsGrow ==
    [][\A p \in Starts :
          (pc[p] \in {"fg_save", "save"} /\ pc'[p] \in {"fork", "loop_top"}) =>
              /\ load_history(historyFile).seen_gtm_ids
                    \subseteq load_history(historyFile').seen_gtm_ids
              /\ load_history(historyFile).seen_post_ids
                    \subseteq load_history(historyFile').seen_post_ids]_vars

\* C3: an identifier in the seen set of the ledger a cycle loaded is not
\* analysed by that cycle, neither as a collected nor as a linked
\* identifier.
C3_SeenNotAnalysed ==
    [][\A p \in Starts :
          (pc[p] \in {"fg_scan", "scan"} /\ pc'[p] # pc[p]) =>
              analysed'[p] \cap history[p].seen_gtm_ids = {}]_vars

\* C3 witness: a deep-mode cycle that loaded a non-empty seen set has
\* analysed containers.
C3_Witness ==
    \E p \in Starts :
        /\ args.deep
        /\ pc[p] = "save"
        /\ analysed[p] # {}
        /\ history[p].seen_gtm_ids \ analysed[p] # {}

\* C4: no two scan cycles are in flight against the ledger file at the
\* same time.
C4_OneCycleInFlight == Cardinality({p \in Starts : pc[p] \in CyclePcs}) <= 1

\* C5: the ledger is persisted only when a cycle completes: every step
\* that adds an identifier to the persisted seen sets is the returning
\* save_history of a cycle, so a cycle that raises, is killed or fails to
\* write marks nothing as seen.
C5_PersistOnlyOnCompletion ==
    [][(\/ ~(load_history(historyFile').seen_gtm_ids
                 \subseteq load_history(historyFile).seen_gtm_ids)
        \/ ~(load_history(historyFile').seen_post_ids
                 \subseteq load_history(historyFile).seen_post_ids))
          => \E p \in Starts : /\ pc[p] \in {"fg_save", "save"}
                                /\ pc'[p] \in {"fork", "loop_top"}]_vars

\* C5 witness: a daemon cycle that analysed containers did not complete,
\* and the persisted ledger marks none of them.
C5_Witness ==
    \E p \in Starts :
        /\ pc[p] = "backoff"
        /\ analysed[p] # {}
        /\ analysed[p] \cap load_history(historyFile).seen_gtm_ids = {}

\* C6: once the stop flag is set the daemon enters no new cycle, sleeps no
\* further second, removes the PID file when it leaves the loop, and does
\* stop.
C6_StopFlagStops ==
    /\ [][\A p \in Starts :
            (pc[p] \in HandlerPcs /\ ~running[p]) =>
                /\ pc'[p] \in {"load", "scan", "save"}
                      => pc[p] \in {"load", "scan", "save"}
                /\ pc[p] = "sleep"
                      => ticks'[p] = ticks[p] /\ pc'[p] # "load"
                /\ pc'[p] = "stopped" => pidFile' = NoPid]_vars
    /\ \A p \in Starts :
          (pc[p] \in HandlerPcs /\ ~running[p])
              ~> (pc[p] \in {"stopped", "killed"})

\* C6 witness: a daemon signalled during its sleep has left the loop with
\* seconds of the interval remaining and has removed the PID file.
C6_Witness ==
    \E p \in Starts :
        /\ pc[p] = "stopped"
        /\ ~running[p]
        /\ ticks[p] > 0
        /\ pidFile = NoPid

\* C7: when stop_scheduler returns after finding a live scheduler, that
\* process has exited and the PID file does not exist.
C7_StopStops ==
    [][(stopPc = "unlink" /\ stopPc' = "stopped") =>
          (pidFile' = NoPid /\ pc'[stopPid] \notin DaemonPcs)]_vars

\* C7 witness: stop_scheduler has returned after signalling a daemon that
\* was in the middle of a cycle.
C7_Witness ==
    /\ stopPc = "stopped"
    /\ pc[stopPid] = "killed"
    /\ analysed[stopPid] # {}

\* C15: when the inputs need an X.com session (--xuser, --search) or a
\* BuiltWith session (--reverse-lookup) and that session is absent,
\* run_scheduler exits before any scan cycle and before forking, and
\* writes neither the PID file nor the ledger.
C15_MissingSessionExits ==
    ((args.xcom /\ ~xSession) \/ (args.reverse_lookup /\ ~bwSession)) =>
        /\ \A p \in procs : pc[p] \in {"idle", "exit1"}
        /\ cycles = 0
        /\ {p \in Starts : pc[p] \in DaemonPcs} = {}
        /\ pidFile = NoPid
        /\ historyFile = NoFile

\* C15 witness: a command with --reverse-lookup and no X.com input has
\* left run_scheduler at the BuiltWith check.
C15_Witness ==
    /\ ~args.xcom
    /\ args.reverse_lookup
    /\ ~bwSession
    /\ \E p \in procs : pc[p] = "exit1"

\* C16: a start request exits with code 1 when a scheduler is already
\* running or the interval is invalid, without a scan and without a daemon;
\* the stop command never exits with code 1, whether it found a scheduler,
\* a stale PID file or none.
C16_ControlExitCodes ==
    /\ []((\/ args.hours # <<>> /\ args.hours[1] \notin 1..12
           \/ args.days # <<>> /\ args.days[1] \notin 1..5
           \/ args.hours # <<>> /\ args.days # <<>>) =>
              /\ \A p \in Starts : pc[p] \in {"main", "exit1"}
              /\ cycles = 0)
    /\ [](\A p \in Starts :
              pc[p] = "exit1" => analysed[p] = {} /\ pidFile # p)
    /\ [](stopPc \in {"idle", "term", "wait", "unlink", "no_scheduler",
                      "stale", "stopped"})
    /\ [][\A p \in Starts :
              (\E q \in Starts \ {p} :
                  pc[q] \in {"fg_load", "fg_scan", "fg_save", "fork"}
                               \cup DaemonPcs)
                  => ~(pc[p] = "check_pid" /\ pc'[p] = "fg_load")]_vars

\* C21: a scheduler process passes through its phases only in the order
\* STARTING, VALIDATING_PREREQS, RUNNING_CYCLE, SLEEPING, RUNNING_CYCLE, ...,
\* STOPPING, STOPPED: the first cycle is entered from the prerequisite
\* checks only, every later cycle is entered only after the sleep loop ran
\* through the full interval, and no cycle is entered once the stop flag is
\* set.  (sys.exit, an uncaught exception and a kill end the process in any
\* phase.)
C21_PhaseOrder ==
    [][\A p \in Starts :
          LET rank(at) ==
                  CASE at = "idle" -> 1
                    [] at \in {"read_pid", "check_pid"} -> 2
                    [] at \in {"fg_load", "fg_scan", "fg_save", "fork",
                               "daemon_init", "loop_top", "sleep",
                               "after_sleep", "load", "scan", "save",
                               "backoff"} -> 3
                    [] at = "unlink" -> 4
                    [] at = "stopped" -> 5
                    [] OTHER -> 0
              cycle == {"fg_load", "fg_scan", "fg_save", "load", "scan", "save"}
          IN  /\ rank(pc'[p]) # 0 =>
                    rank(pc'[p]) \in {rank(pc[p]), rank(pc[p]) + 1}
              /\ (rank(pc[p]) = 2 /\ rank(pc'[p]) = 3) => pc'[p] = "fg_load"
              /\ (pc[p] \notin cycle /\ pc'[p] \in cycle) =>
                    \/ pc[p] = "check_pid" /\ pc'[p] = "fg_load"
                    \/ /\ pc[p] = "after_sleep" /\ pc'[p] = "load"
                       /\ ticks[p] = 0
                       /\ running[p]]_vars

\* C21 witness: a daemon has slept the full interval once more and has
\* entered the last cycle of the behaviour.
C21_Witness ==
    \E p \in Starts :
        /\ pc[p] = "load"
        /\ cycles = MaxCycles
        /\ ticks[p] = 0
        /\ running[p]

(***************************************************************************)
(* The claims about one scan cycle.  They are stated at the entry of       *)
(* run_scan, over everything the collaborators may hand to the cycle.      *)
(***************************************************************************)

\* C22 as stated: in deep mode, every GTM identifier found inside a
\* container newly analysed in the cycle (a container of gtm_list or a
\* linked container) that is neither collected in the cycle nor already
\* seen is analysed before the reverse lookups, is looked up when active,
\* and is in the seen set of the returned ledger.
C22_LinkedOfEveryAnalysed ==
    \A p \in procs :
        (pc[p] \in {"fg_scan", "scan"} /\ args.deep) =>
            \A inp \in ScanInputs(args) :
                LET r == run_scan(args, xSession, bwSession, history[p], inp)
                    calls == r.calls
                    first == IF calls[1].ids \cap inp.active # {}
                             THEN inp.found ELSE {}
                    second == IF /\ Len(calls) > 1
                                 /\ calls[2].call = "analyze"
                                 /\ calls[2].ids \cap inp.active # {}
                              THEN inp.found_linked ELSE {}
                IN  calls # <<>> =>
                      \A t \in first \cup second :
                          (t \notin r.all_gtm_ids
                             /\ t \notin history[p].seen_gtm_ids) =>
                              /\ \E i \in DOMAIN calls :
                                    /\ calls[i].call = "analyze"
                                    /\ t \in calls[i].ids
                                    /\ \A j \in DOMAIN calls :
                                          calls[j].call = "lookup" => i < j
                              /\ \A j \in DOMAIN calls :
                                    (calls[j].call = "lookup" /\ t \in inp.active)
                                        => t \in calls[j].ids
                              /\ t \in r.history.seen_gtm_ids

\* C22 amended: the same for the identifiers found inside the containers of
\* gtm_list, the collected identifiers that were not yet seen.
C22_LinkedOfCollected ==
    \A p \in procs :
        (pc[p] \in {"fg_scan", "scan"} /\ args.deep) =>
            \A inp \in ScanInputs(args) :
                LET r == run_scan(args, xSession, bwSession, history[p], inp)
                    calls == r.calls
                    first == IF calls[1].ids \cap inp.active # {}
                             THEN inp.found ELSE {}
                IN  calls # <<>> =>
                      \A t \in first :
                          (t \notin r.all_gtm_ids
                             /\ t \notin history[p].seen_gtm_ids) =>
                              /\ \E i \in DOMAIN calls :
                                    /\ calls[i].call = "analyze"
                                    /\ t \in calls[i].ids
                                    /\ \A j \in DOMAIN calls :
                                          calls[j].call = "lookup" => i < j
                              /\ \A j \in DOMAIN calls :
                                    (calls[j].call = "lookup" /\ t \in inp.active)
                                        => t \in calls[j].ids
                              /\ t \in r.history.seen_gtm_ids

\* C22 witness: a deep cycle with reverse lookup whose only input is --gtm
\* with container 1 has analysed container 1 and container 2 linked from
\* it, has looked sites up and has marked both in the ledger it returns.
C22_Witness ==
    \E p \in procs :
        /\ args.deep /\ args.reverse_lookup
        /\ ~args.xcom /\ ~args.scan /\ args.gtm = {1}
        /\ pc[p] = "save"
        /\ analysed[p] = {1, 2}
        /\ history[p].seen_gtm_ids = {1, 2}
        /\ history[p].runs[Len(history[p].runs)].new_domains > 0

\* C24: the ledger exists after the first cycle and is updated at the end
\* of every scan cycle, interactive or scheduled: when a cycle ends without
\* an error, HISTORY_FILE holds a ledger whose seen set has the identifiers
\* the cycle analysed.
C24_LedgerUpdatedEveryCycle ==
    [][\A p \in Starts :
          (\/ pc[p] \in {"fg_save", "save"} /\ pc'[p] \in {"fork", "loop_top"}
           \/ pc[p] = "run_once" /\ pc'[p] = "scan_complete") =>
              /\ historyFile'.kind = "ok"
              /\ analysed'[p] \subseteq historyFile'.data.seen_gtm_ids]_vars

(***************************************************************************)
(* The claims about the credentials inside a cycle.                        *)
(***************************************************************************)
\* C25, X.com half: a cycle that starts without an X.com session collects no
\* post (the ledger's seen posts stay as they were) and, when another input
\* is configured, still records the containers of --gtm and --scan-url.
C25_XcomSkipped ==
    \A p \in procs :
        pc[p] \in {"fg_scan", "scan"} /\ args.xcom /\ ~xSession =>
            \A inp \in ScanInputs(args) :
                /\ run_scan(args, xSession, bwSession, history[p],
                            inp).history.seen_post_ids
                       = history[p].seen_post_ids
                /\ has_offline_input(args) =>
                       args.gtm \cup inp.scanned
                           \subseteq run_scan(args, xSession, bwSession,
                                              history[p],
                                              inp).history.seen_gtm_ids

\* C25, BuiltWith half: a background cycle with --reverse-lookup and no
\* BuiltWith session calls no lookup, and when it has fresh containers it
\* still analyses them, writes the output and appends its run record.
C25_LookupSkipped ==
    \A p \in procs :
        pc[p] = "scan" /\ args.reverse_lookup /\ ~bwSession =>
            \A inp \in ScanInputs(args) :
                /\ \A k \in DOMAIN run_scan(args, xSession, bwSession,
                                            history[p], inp).calls :
                       run_scan(args, xSession, bwSession, history[p],
                                inp).calls[k].call # "lookup"
                /\ run_scan(args, xSession, bwSession, history[p],
                            inp).analysed # {} =>
                       /\ run_scan(args, xSession, bwSession, history[p],
                                   inp).calls[1].call = "analyze"
                       /\ run_scan(args, xSession, bwSession, history[p],
                                   inp).calls[
                              Len(run_scan(args, xSession, bwSession,
                                           history[p], inp).calls)].call
                              = "output"
                       /\ Len(run_scan(args, xSession, bwSession, history[p],
                                       inp).history.runs)
                              = Len(history[p].runs) + 1
                       /\ run_scan(args, xSession, bwSession, history[p],
                                   inp).analysed
                              \subseteq run_scan(args, xSession, bwSession,
                                                 history[p],
                                                 inp).history.seen_gtm_ids

\* C25: inside a scan cycle a missing credential is never fatal: without an
\* X.com session the X.com collection is skipped and the other configured
\* inputs are still processed, and without a BuiltWith session in background
\* mode the reverse lookup is skipped while analysis, output and the ledger
\* update of the cycle still happen.
C25_MissingCredentialSkips ==
    C25_XcomSkipped /\ C25_LookupSkipped

\* C25 witness: a background cycle with an X.com input, --gtm and
\* --reverse-lookup is about to scan after both sessions were removed
C25_Witness ==
    \E p \in procs :
        /\ pc[p] = "scan"
        /\ args.xcom /\ ~xSession
        /\ args.reverse_lookup /\ ~bwSession
        /\ args.gtm \ history[p].seen_gtm_ids # {}

(***************************************************************************)
(* The claims about _is_valid_domain.                                      *)
(***************************************************************************)
\* C26, the conditions of acceptance: the quoted candidate of the content is
\* among the result's domains only if it contains a dot, is not all digits
\* and dots, and has at least 2 segments.
C26_AcceptedOnlyIf ==
    (aPc = "idle" /\ aResult.status = "active") =>
        (SubSeq(aContent, 2, Len(aContent) - 1) \in Range(aResult.domains) =>
            /\ contains(SubSeq(aContent, 2, Len(aContent) - 1), ".")
            /\ ~all_digits_or_dots(SubSeq(aContent, 2, Len(aContent) - 1))
            /\ Len(split(SubSeq(aContent, 2, Len(aContent) - 1), ".")) >= 2)

\* C26, the two-segment suffix without the suffixes that end in a word of
\* _FALSE_POSITIVE_TLDS: a candidate that contains a dot, is not all digits
\* and dots, has at least 3 segments, ends in an allow-listed two-segment
\* suffix whose last segment is not such a word, and does not start with a
\* generic object-path word is among the result's domains.
C26_SuffixAcceptedButId ==
    (aPc = "idle" /\ aResult.status = "active") =>
        LET d == SubSeq(aContent, 2, Len(aContent) - 1)
            parts == split(d, ".")
        IN  (/\ contains(d, ".")
             /\ ~all_digits_or_dots(d)
             /\ Len(parts) >= 3
             /\ (parts[Len(parts) - 1] \o "." \o parts[Len(parts)])
                    \in VALID_TLDS
             /\ parts[Len(parts)] \notin FALSE_POSITIVE_TLDS
             /\ ~false_positive_match(parts[1]))
            => d \in Range(aResult.domains)

\* C26: a candidate is accepted by _is_valid_domain only if it contains a
\* dot, is not all digits and dots, and has at least 2 segments; the
\* two-segment suffix is checked first, so every such candidate with at
\* least 3 segments whose last two segments form an allow-listed multi-part
\* suffix (for example co.uk, com.br or co.id) and whose first segment is
\* not a generic object-path word is accepted.
C26_ValidDomain ==
    /\ C26_AcceptedOnlyIf
    /\ (aPc = "idle" /\ aResult.status = "active") =>
          LET d == SubSeq(aContent, 2, Len(aContent) - 1)
              parts == split(d, ".")
          IN  (/\ contains(d, ".")
               /\ ~all_digits_or_dots(d)
               /\ Len(parts) >= 3
               /\ (parts[Len(parts) - 1] \o "." \o parts[Len(parts)])
                      \in VALID_TLDS
               /\ ~false_positive_match(parts[1]))
              => d \in Range(aResult.domains)

\* C26 witness: the analysis of a container that holds "shop.co.id" has
\* extracted from it and the result has no domain
C26_Witness ==
    /\ aPc = "idle"
    /\ aResult.status = "active"
    /\ aContent = "\"shop.co.id\""
    /\ aResult.domains = <<>>

(***************************************************************************)
(* The claims about the ledger across cycles.                              *)
(***************************************************************************)
\* C27, within one cycle: whatever the containers answered (inp.active
\* names those whose result is active), run_scan puts every identifier it
\* analysed into the seen set it returns, and the completing save_history
\* persists them.
C27_AnalysedAreSaved ==
    [][\A p \in Starts :
          /\ (pc[p] \in {"fg_scan", "scan"} /\ pc'[p] \in {"fg_save", "save"})
                => analysed'[p] \subseteq history'[p].seen_gtm_ids
          /\ (pc[p] \in {"fg_save", "save"} /\ pc'[p] \in {"fork", "loop_top"})
                => analysed[p] \subseteq
                       load_history(historyFile').seen_gtm_ids]_vars

\* C27, across cycles: no cycle analyses an identifier of the persisted seen
\* set.
C27_SavedNotAnalysed ==
    [][\A p \in Starts :
          (pc[p] \in {"fg_scan", "scan"} /\ pc'[p] # pc[p]) =>
              analysed'[p] \cap load_history(historyFile).seen_gtm_ids = {}]_vars

\* C27: every identifier analysed in a completed cycle is added to the
\* ledger's seen set whatever its resulting status, so a container whose
\* fetch ended in timeout, not_found or error is not analysed again by any
\* later cycle until history is cleared: the identifiers a completed cycle
\* analysed are persisted, a persisted identifier stays persisted by every
\* step but the removal of the ledger file, and no cycle analyses a
\* persisted identifier.
C27_AnalysedOnce ==
    /\ C27_AnalysedAreSaved
    /\ C27_SavedNotAnalysed
    /\ [][historyFile'.kind # "nofile" =>
              load_history(historyFile).seen_gtm_ids
                  \subseteq load_history(historyFile').seen_gtm_ids]_vars

(***************************************************************************)
(* The claims about the PID file.                                          *)
(***************************************************************************)
\* C28: whenever a scheduler daemon is alive in its loop, the PID file
\* exists and holds that daemon's PID, for any interleaving of start, stop
\* and daemon exit; in particular no step removes or replaces a PID file
\* that names a daemon still running in its loop.
C28_PidFileHoldsDaemon ==
    /\ [](\A p \in Starts :
              pc[p] \in HandlerPcs \ {"unlink"} => pidFile = p)
    /\ [][\A p \in Starts :
             (pidFile = p /\ pc[p] \in HandlerPcs \ {"unlink"}
                 /\ pc'[p] \in HandlerPcs \ {"unlink"}) => pidFile' = p]_vars

\* the sum of new_domains over run records
RECURSIVE C29_SumNewDomains(_)
C29_SumNewDomains(runs) ==
    IF runs = <<>> THEN 0
    ELSE runs[1].new_domains + C29_SumNewDomains(Tail(runs))

\* C29: starting from an empty ledger, after any sequence of completed
\* cycles the ledger's total_domains_found equals the sum of new_domains
\* over all its run records (in the ledger a cycle holds and in the one the
\* file persists), and each cycle that reaches collection appends exactly
\* one run record without changing earlier ones.
C29_TotalIsSumOfRuns ==
    /\ [](/\ \A p \in Starts :
                history[p].total_domains_found
                    = C29_SumNewDomains(history[p].runs)
          /\ load_history(historyFile).total_domains_found
                 = C29_SumNewDomains(load_history(historyFile).runs))
    /\ [][\A p \in Starts :
             (/\ pc[p] \in {"fg_scan", "scan"}
              /\ pc'[p] \in {"fg_save", "save"}
              /\ ~(args.xcom /\ ~xSession /\ ~has_offline_input(args))) =>
                 /\ Len(history'[p].runs) = Len(history[p].runs) + 1
                 /\ SubSeq(history'[p].runs, 1, Len(history[p].runs))
                        = history[p].runs]_vars

\* C29 witness: the persisted ledger holds a run that found a domain and,
\* after it, a run that had nothing new
C29_Witness ==
    /\ historyFile.kind = "ok"
    /\ historyFile.data.total_domains_found = 1
    /\ Len(historyFile.data.runs) = 2
    /\ historyFile.data.runs[1].new_domains = 1
    /\ historyFile.data.runs[2].new_gtms = 0

====
